---- MODULE Spec2Model ----
(***************************************************************************)
(* Model of the AIGrabber desktop companion: the download scheduler        *)
(* (Downloader), the sinks it is wired to in the main process, and the     *)
(* request handlers that call it.                                          *)
(***************************************************************************)
EXTENDS Integers, Sequences, FiniteSets, TLC

(* ---------------------------------------------------------------- bounds *)
\* Spec: the download pipeline in full (every stream type, every outcome of
\* every await), for a few jobs
MaxPipelineJobs == 1
MaxSegments == 2
\* SpecSched: the queue and the concurrency limit, for more jobs with short
\* HLS and direct downloads
MaxJobs == 2
SchedSegments == 1
MaxConcurrentBound == 2
\* bytes of each downloaded segment (of each chunk of a direct transfer)
SegmentBytes == 1
\* SpecYtdlp: progress lines read from one helper process
MaxYtdlpLines == 3
\* SpecCodec: frames written to the host's stdin, bytes per small chunk
MaxFrames == 2
MaxChunk == 5
\* SpecHls: groups of lines of a playlist after its header
MaxPlaylistItems == 3
\* SpecDash: representations of an adaptation set, <S> elements of a
\* segment timeline
MaxRepresentations == 3
MaxTimelineEntries == 2

\* SpecMerge: 'data' events of the encoder's stderr
MaxStderrChunks == 2

\* SpecCache: manifest URLs the pages request, requests in flight at once
MaxManifestUrls == 101
MaxManifestFetches == 2
\* the ports the client may create, the download requests of the popup and
\* the calls of disconnect()
MaxPorts == 4
MaxDownloadRequests == 1
MaxDisconnectCalls == 1
\* the tabs, the stream requests the pages make and the navigations and
\* closings of tabs
MaxTabs == 2
MaxObserved == 2
MaxNavigations == 1

(* ------------------------------------------------------------ data types *)
StreamTypes == {"hls", "dash", "direct", "unknown"}
StreamProtections == {"none", "drm"}
TerminalStatuses == {"completed", "failed", "cancelled"}
ActiveStatuses == {"downloading", "merging"}

\* the DetectedStream values a download is requested for (type, protection)
Streams == {[type |-> "hls", protection |-> "none"],
            [type |-> "dash", protection |-> "none"],
            [type |-> "direct", protection |-> "none"],
            [type |-> "hls", protection |-> "drm"],
            [type |-> "unknown", protection |-> "none"]}

\* the numbers of segments of the playlists and MPDs the downloads receive
SegmentCounts == {0, MaxSegments}

\* positions at which a download task awaits a got request (cancellable
\* through the AbortSignal)
GotPcs == {"hls_manifest", "hls_playlist", "dash_manifest", "init_fetch",
           "seg_fetch", "direct"}
\* positions at which a download task awaits something that does not take
\* the AbortSignal (filesystem, dynamic import, encoder)
PlainPcs == {"dash_import", "mkdir", "init_write", "seg_write", "merge",
             "concat", "rm"}
AwaitPcs == GotPcs \cup PlainPcs

VARIABLES
  jobs,              \* Downloader.jobs: id -> DownloadJob
  queue,             \* Downloader.queue
  activeDownloads,   \* Downloader.activeDownloads
  abortControllers,  \* ids that have an entry in Downloader.abortControllers
  maxConcurrent,     \* options.maxConcurrent
  ffmpegAvailable,   \* options.ffmpeg?.isAvailable()
  task,              \* id -> locals of the job's executeDownload task
  scratch,           \* ids whose temporary directory exists on disk
  events,            \* id -> events delivered to the sinks / the extension
  cancelRequested,   \* ids for which cancelDownload was called before they ended
  cancelledPending,  \* ids that were cancelled while pending in the queue
  ytdlp,             \* id -> the helper process of a yt-dlp download
  host,              \* NativeMessagingHost: buffer, messages handed to
                     \* onMessage, bytes written to process.stdout
  wire,              \* bytes the browser wrote that stdin has not delivered
  sentFrames,        \* bodies of the frames the browser wrote, in order
  roundTrip,         \* one progress value sent through sendMessage and back
  call,              \* one call of a function of the manifest parsers
  extension          \* the browser extension's background page: the manifest
                     \* cache of its StreamDetector

vars == <<jobs, queue, activeDownloads, abortControllers, maxConcurrent,
          ffmpegAvailable, task, scratch, events, cancelRequested,
          cancelledPending, ytdlp, host, wire, sentFrames, roundTrip, call,
          extension>>

\* the scheduler state as one value, for the synchronous code paths
S == [jobs |-> jobs, queue |-> queue, activeDownloads |-> activeDownloads,
      abortControllers |-> abortControllers, maxConcurrent |-> maxConcurrent,
      ffmpegAvailable |-> ffmpegAvailable, task |-> task,
      scratch |-> scratch, events |-> events]

Commit(s) ==
  /\ jobs' = s.jobs
  /\ queue' = s.queue
  /\ activeDownloads' = s.activeDownloads
  /\ abortControllers' = s.abortControllers
  /\ maxConcurrent' = s.maxConcurrent
  /\ ffmpegAvailable' = s.ffmpegAvailable
  /\ task' = s.task
  /\ scratch' = s.scratch
  /\ events' = s.events

ZeroProgress ==
  [downloadedBytes |-> 0, percentage |-> 0, currentSegment |-> 0,
   totalSegments |-> 0]

\* locals of executeDownload and of the download function it awaits; io is
\* the list of HTTP requests issued and files written by the task so far,
\* attempt the number of retries got has made of the request in flight
NoTask == [pc |-> "none", aborted |-> FALSE, total |-> 0, i |-> 0,
           segmentFiles |-> <<>>, hasInit |-> FALSE, isDRM |-> FALSE,
           io |-> <<>>, attempt |-> 0]

\* the task has ended: its locals are gone
DoneTask == [NoTask EXCEPT !.pc = "done"]

\* no helper process was spawned for the id; lastProgress as download() sets
\* it, registered = the process is in YtdlpManager.activeProcesses, signals
\* the signals sent to the process
NoProc == [pc |-> "none", lines |-> 0, lastProgress |-> ZeroProgress,
           registered |-> FALSE, signals |-> <<>>]

\* the host as constructed: buffer = Buffer.alloc(0), nothing read or written
NoHost == [started |-> FALSE, buffer |-> <<>>, received |-> <<>>,
           stdout |-> <<>>]

\* no progress value is on its way through the codec
NoRoundTrip == [pc |-> "none", message |-> <<>>, frame |-> <<>>,
                decoded |-> <<>>]

\* no parser function has been called
NoCall == [fn |-> "none", pc |-> "none", input |-> <<>>, output |-> <<>>]

\* the background page as loaded: manifestCache = new Map(), the entries
\* kept in insertion order as a Map iterates them; no fetch is in flight.
\* The NativeMessaging client as constructed: port = null (0), connected =
\* false, reconnectAttempts = 0; no port was created, no timer is pending.
\* tabStreams = new Map(): no tab has a list, no array was created.
NoExtension ==
  [manifestCache |-> <<>>, fetches |-> <<>>, recent |-> <<>>,
   port |-> 0, connected |-> FALSE, reconnectAttempts |-> 0,
   ports |-> <<>>, timers |-> <<>>, initCalled |-> FALSE,
   downloadRequests |-> 0, disconnectCalls |-> 0, scheduled |-> 0,
   lastSend |-> "none",
   tabStreams |-> <<>>, arrays |-> <<>>, adding |-> <<>>,
   observed |-> 0, navigations |-> 0]

NewJob(stream) ==
  [stream |-> stream, status |-> "pending", progress |-> ZeroProgress,
   outputPath |-> "", error |-> ""]

(* ----------------------------------------------------------------- sinks *)
Emit(s, id, ev) == [s EXCEPT !.events[id] = Append(@, ev)]

OnProgress(s, id, progress) ==
  Emit(s, id, [kind |-> "progress", status |-> "downloading",
               progress |-> progress])

OnComplete(s, id) ==
  Emit(s, id, [kind |-> "complete", status |-> "completed",
               progress |-> s.jobs[id].progress])

OnError(s, id) ==
  Emit(s, id, [kind |-> "error", status |-> "failed",
               progress |-> s.jobs[id].progress])

\* the DOWNLOAD_PROGRESS message handleNativeMessage sends after startDownload
SendPendingProgress(s, id) ==
  Emit(s, id, [kind |-> "progress", status |-> "pending",
               progress |-> ZeroProgress])

(* ------------------------------------------------------------- scheduler *)
\* processQueue with an off-by-one loop condition
CanStart_OffByOne(s) ==
  s.activeDownloads <= s.maxConcurrent /\ Len(s.queue) > 0

CanStart(s) == s.activeDownloads < s.maxConcurrent /\ Len(s.queue) > 0

RECURSIVE ProcessQueue(_)
RECURSIVE ExecuteDownload(_, _)
RECURSIVE Finally(_, _)

\* a finally block that releases the slot without calling processQueue
Finally_LeavesQueue(s, id) ==
  [s EXCEPT !.activeDownloads = @ - 1,
            !.abortControllers = @ \ {id},
            !.task[id] = DoneTask]

Finally(s, id) ==
  ProcessQueue([s EXCEPT !.activeDownloads = @ - 1,
                         !.abortControllers = @ \ {id},
                         !.task[id] = DoneTask])

\* a catch block that marks every running job failed, not only its own
Catch_FailsAll(s, id, errName, msg) ==
  IF errName # "AbortError" /\ s.jobs[id].status # "cancelled"
  THEN Finally(OnError([s EXCEPT !.jobs =
                          [j \in DOMAIN s.jobs |->
                             IF j = id \/ s.jobs[j].status \in ActiveStatuses
                             THEN [s.jobs[j] EXCEPT !.status = "failed",
                                                    !.error = msg]
                             ELSE s.jobs[j]]], id), id)
  ELSE Finally(s, id)

\* the catch block of executeDownload
Catch(s, id, errName, msg) ==
  IF errName # "AbortError" /\ s.jobs[id].status # "cancelled"
  THEN Finally(OnError([s EXCEPT !.jobs[id].status = "failed",
                                 !.jobs[id].error = msg], id), id)
  ELSE Finally(s, id)

\* the download function returned normally
Returned(s, id) ==
  IF s.jobs[id].status # "cancelled"
  THEN Finally(OnComplete([s EXCEPT !.jobs[id].status = "completed"], id), id)
  ELSE Finally(s, id)

\* got(url, { signal }): a request is issued unless the signal is already aborted
Got(s, id, kind, index, nextPc) ==
  IF s.task[id].aborted
  THEN Catch(s, id, "AbortError", "This operation was aborted.")
  ELSE [s EXCEPT !.task[id].io =
                   Append(@, [op |-> "get", kind |-> kind, index |-> index]),
                 !.task[id].attempt = 0,
                 !.task[id].pc = nextPc]

ExecuteDownload(s, id) ==
  IF id \notin DOMAIN s.jobs \/ s.jobs[id].status = "cancelled"
  THEN s
  ELSE LET s1 == [s EXCEPT !.activeDownloads = @ + 1,
                           !.jobs[id].status = "downloading",
                           !.abortControllers = @ \cup {id},
                           !.task[id] = NoTask]
           type == s.jobs[id].stream.type
       IN CASE type = "hls" -> Got(s1, id, "manifest", 0, "hls_manifest")
            [] type = "dash" -> Got(s1, id, "manifest", 0, "dash_manifest")
            [] type = "direct" -> Got(s1, id, "direct", 0, "direct")
            [] OTHER -> Catch(s1, id, "Error", "Unsupported stream type")

ProcessQueue(s) ==
  IF CanStart(s)
  THEN ProcessQueue(ExecuteDownload([s EXCEPT !.queue = Tail(@)], Head(s.queue)))
  ELSE s

NextJobId(s) == Cardinality(DOMAIN s.jobs) + 1

\* startDownload running the new job at once instead of through the queue
StartDownloadOp_SkipsQueue(s, stream) ==
  LET id == NextJobId(s)
  IN ExecuteDownload([s EXCEPT !.jobs = @ @@ (id :> NewJob(stream))], id)

StartDownloadOp(s, stream) ==
  LET id == NextJobId(s)
  IN ProcessQueue([s EXCEPT !.jobs = @ @@ (id :> NewJob(stream)),
                            !.queue = Append(@, id)])

\* cancelDownload without the queue.splice
RemoveFromQueue_Keep(q, id) == q

RemoveFromQueue(q, id) == SelectSeq(q, LAMBDA x : x # id)

\* cancelDownload reporting the cancellation to the progress sink on each call
CancelDownloadOp_Reports(s, id) ==
  LET s1 == IF id \in s.abortControllers
            THEN [s EXCEPT !.task[id].aborted = TRUE,
                           !.abortControllers = @ \ {id}]
            ELSE s
      s2 == IF id \in DOMAIN s1.jobs
            THEN Emit([s1 EXCEPT !.jobs[id].status = "cancelled"], id,
                      [kind |-> "progress", status |-> "cancelled",
                       progress |-> s1.jobs[id].progress])
            ELSE s1
  IN [s2 EXCEPT !.queue = RemoveFromQueue(@, id)]

CancelDownloadOp(s, id) ==
  LET s1 == IF id \in s.abortControllers
            THEN [s EXCEPT !.task[id].aborted = TRUE,
                           !.abortControllers = @ \ {id}]
            ELSE s
      s2 == IF id \in DOMAIN s1.jobs
            THEN [s1 EXCEPT !.jobs[id].status = "cancelled"]
            ELSE s1
  IN [s2 EXCEPT !.queue = RemoveFromQueue(@, id)]

(* ------------------------------------------------------------------ Init *)
\* store defaults: maxConcurrentDownloads
DefaultMaxConcurrent == 3

InitWith(ids, limits) ==
  /\ jobs = <<>>
  /\ queue = <<>>
  /\ activeDownloads = 0
  /\ abortControllers = {}
  /\ maxConcurrent \in limits
  /\ ffmpegAvailable \in BOOLEAN
  /\ task = [id \in ids |-> NoTask]
  /\ scratch = {}
  /\ events = [id \in ids |-> <<>>]
  /\ cancelRequested = {}
  /\ cancelledPending = {}
  /\ ytdlp = [id \in ids |-> NoProc]

\* the native messaging host before start(), nothing on its pipes
HostIdle ==
  /\ host = NoHost
  /\ wire = <<>>
  /\ sentFrames = <<>>
  /\ roundTrip = NoRoundTrip
  /\ call = NoCall
  /\ extension = NoExtension

Init == InitWith(1..MaxPipelineJobs, {DefaultMaxConcurrent}) /\ HostIdle

InitSched == InitWith(1..MaxJobs, 1..MaxConcurrentBound) /\ HostIdle

Ids == DOMAIN task

\* what the continuations of the download tasks leave alone
UNCHANGED_HISTORY ==
  UNCHANGED <<cancelRequested, cancelledPending, ytdlp, host, wire,
              sentFrames, roundTrip, call, extension>>

(* ------------------------------------------- download task continuations *)
Percentage(done, total) == (done * 100) \div total

\* the progress after `done` of `total` segments (or transfer chunks), each
\* of SegmentBytes bytes
SegmentProgress(done, total) ==
  [downloadedBytes |-> done * SegmentBytes,
   percentage |-> Percentage(done, total), currentSegment |-> done,
   totalSegments |-> total]

\* segment files are named by their index; init.mp4 is InitFile
InitFile == -1

\* segmentFiles.unshift instead of push
PushFile_Front(files, name) == <<name>> \o files

PushFile(files, name) == Append(files, name)

\* "Merge segments": status becomes merging, then the encoder or the fallback
MergeStage(s, id) ==
  LET s1 == [s EXCEPT !.jobs[id].status = "merging"]
  IN IF s.ffmpegAvailable
     THEN [s1 EXCEPT !.task[id].pc = "merge"]
     ELSE [s1 EXCEPT !.task[id].pc = "concat"]

\* a segment loop that neither tests signal.aborted nor hands the signal to got
LoopHead_IgnoresSignal(s, id) ==
  IF s.task[id].i < s.task[id].total
  THEN [s EXCEPT !.task[id].io =
                   Append(@, [op |-> "get", kind |-> "segment",
                              index |-> s.task[id].i]),
                 !.task[id].attempt = 0,
                 !.task[id].pc = "seg_fetch"]
  ELSE MergeStage(s, id)

\* head of the segment loop of downloadHLS / downloadDASH
LoopHead(s, id) ==
  IF s.task[id].i < s.task[id].total
  THEN IF s.task[id].aborted
       THEN Catch(s, id, "Error", "Download cancelled")
       ELSE Got(s, id, "segment", s.task[id].i, "seg_fetch")
  ELSE MergeStage(s, id)

\* after fs.mkdir(tempDir): DASH downloads the init segment first
AfterMkdir(s, id) ==
  LET s1 == [s EXCEPT !.scratch = @ \cup {id}]
  IN IF s.jobs[id].stream.type = "dash" /\ s.task[id].hasInit
     THEN Got(s1, id, "init", 0, "init_fetch")
     ELSE LoopHead(s1, id)

\* after fs.writeFile(segmentPath): push, progress, next iteration
AfterSegmentWrite(s, id) ==
  LET t == s.task[id]
      progress == SegmentProgress(t.i + 1, t.total)
      s1 == [s EXCEPT !.task[id].io =
                        Append(@, [op |-> "write", kind |-> "segment",
                                   index |-> t.i]),
                      !.task[id].segmentFiles = PushFile(@, t.i),
                      !.task[id].i = @ + 1,
                      !.jobs[id].progress = progress]
  IN LoopHead(OnProgress(s1, id, progress), id)

AfterInitWrite(s, id) ==
  LoopHead([s EXCEPT !.task[id].io =
                       Append(@, [op |-> "write", kind |-> "init", index |-> 0]),
                     !.task[id].segmentFiles = PushFile(@, InitFile)], id)

SetOutputPath(s, id) == [s EXCEPT !.jobs[id].outputPath = "out"]

(* --------------------------------------------------------------- actions *)
At(id, pcs) == id \in DOMAIN jobs /\ task[id].pc \in pcs

\* handleNativeMessage, case 'DOWNLOAD_REQUEST' (downloader branch)
DownloadRequest(stream) ==
  /\ NextJobId(S) \in Ids
  /\ Commit(SendPendingProgress(StartDownloadOp(S, stream), NextJobId(S)))
  /\ UNCHANGED_HISTORY

\* handleNativeMessage 'DOWNLOAD_CANCEL' / ipcMain 'cancel-download'
CancelDownload(id) ==
  /\ Commit(CancelDownloadOp(S, id))
  /\ cancelRequested' =
       IF \/ id \in DOMAIN jobs /\ jobs[id].status \notin TerminalStatuses
          \/ ytdlp[id].pc = "running"
       THEN cancelRequested \cup {id}
       ELSE cancelRequested
  /\ cancelledPending' =
       IF id \in DOMAIN jobs /\ jobs[id].status = "pending"
       THEN cancelledPending \cup {id}
       ELSE cancelledPending
  /\ UNCHANGED <<ytdlp, host, wire, sentFrames, roundTrip, call, extension>>

\* downloadHLS: the first got resolved; the manifest is parsed and the
\* media playlist is requested
ManifestResponse(id, drm) ==
  /\ At(id, {"hls_manifest"}) /\ ~task[id].aborted
  /\ Commit(Got([S EXCEPT !.task[id].isDRM = @ \/ drm], id, "playlist", 0,
                "hls_playlist"))
  /\ UNCHANGED_HISTORY

\* downloadHLS: the media playlist arrived with n segments; mkdir starts
PlaylistResponse(id, n, drm) ==
  /\ At(id, {"hls_playlist"}) /\ ~task[id].aborted
  /\ Commit([S EXCEPT !.task[id].isDRM = @ \/ drm,
                      !.task[id].total = n,
                      !.task[id].attempt = 0,
                      !.task[id].pc = "mkdir"])
  /\ UNCHANGED_HISTORY

\* downloadDASH: the MPD arrived and was parsed; the dynamic import starts
MpdResponse(id, n, init, drm) ==
  /\ At(id, {"dash_manifest"}) /\ ~task[id].aborted
  /\ Commit([S EXCEPT !.task[id].isDRM = drm,
                      !.task[id].total = n,
                      !.task[id].hasInit = init,
                      !.task[id].attempt = 0,
                      !.task[id].pc = "dash_import"])
  /\ UNCHANGED_HISTORY

\* downloadDASH: import resolved, generateSegmentUrls ran, mkdir starts
ImportDone(id) ==
  /\ At(id, {"dash_import"})
  /\ Commit(IF task[id].total = 0
            THEN Catch(S, id, "Error", "Could not generate segment URLs")
            ELSE [S EXCEPT !.task[id].pc = "mkdir"])
  /\ UNCHANGED_HISTORY

MkdirDone(id) ==
  /\ At(id, {"mkdir"})
  /\ Commit(AfterMkdir(S, id))
  /\ UNCHANGED_HISTORY

InitFetched(id) ==
  /\ At(id, {"init_fetch"}) /\ ~task[id].aborted
  /\ Commit([S EXCEPT !.task[id].attempt = 0, !.task[id].pc = "init_write"])
  /\ UNCHANGED_HISTORY

InitWritten(id) ==
  /\ At(id, {"init_write"})
  /\ Commit(AfterInitWrite(S, id))
  /\ UNCHANGED_HISTORY

SegmentFetched(id) ==
  /\ At(id, {"seg_fetch"}) /\ ~task[id].aborted
  /\ Commit([S EXCEPT !.task[id].attempt = 0, !.task[id].pc = "seg_write"])
  /\ UNCHANGED_HISTORY

SegmentWritten(id) ==
  /\ At(id, {"seg_write"})
  /\ Commit(AfterSegmentWrite(S, id))
  /\ UNCHANGED_HISTORY

\* ffmpeg.mergeSegments resolved
MergeDone(id) ==
  /\ At(id, {"merge"})
  /\ Commit([S EXCEPT !.task[id].pc = "rm"])
  /\ UNCHANGED_HISTORY

\* concatenateFiles resolved: HLS returns at once, DASH goes on to fs.rm
ConcatDone(id) ==
  /\ At(id, {"concat"})
  /\ Commit(IF jobs[id].stream.type = "hls"
            THEN Returned(SetOutputPath(S, id), id)
            ELSE [S EXCEPT !.task[id].pc = "rm"])
  /\ UNCHANGED_HISTORY

\* fs.rm(tempDir) resolved
RmDone(id) ==
  /\ At(id, {"rm"})
  /\ Commit(Returned(SetOutputPath([S EXCEPT !.scratch = @ \ {id}], id), id))
  /\ UNCHANGED_HISTORY

\* downloadDirect: a 'downloadProgress' event of the got stream
DirectProgress(id) ==
  /\ At(id, {"direct"}) /\ ~task[id].aborted
  /\ task[id].i < MaxSegments
  /\ LET progress == SegmentProgress(task[id].i + 1, MaxSegments)
     IN Commit(OnProgress([S EXCEPT !.task[id].i = @ + 1,
                                    !.jobs[id].progress = progress],
                          id, progress))
  /\ UNCHANGED_HISTORY

\* downloadDirect: the file stream finished
DirectFinish(id) ==
  /\ At(id, {"direct"}) /\ ~task[id].aborted
  /\ Commit(Returned(SetOutputPath(S, id), id))
  /\ UNCHANGED_HISTORY

\* a got request in flight observes the abort and rejects with AbortError
AbortObserved(id) ==
  /\ At(id, GotPcs) /\ task[id].aborted
  /\ Commit(Catch(S, id, "AbortError", "This operation was aborted."))
  /\ UNCHANGED_HISTORY

\* got's retry option is not set at any call, so its default applies: a
\* request of the promise API that fails with a transport error is sent
\* again up to GotRetryLimit times (got.stream requests are not)
GotRetryLimit == 2

RetryPcs == GotPcs \ {"direct"}

\* a got that gives up at the first transport error
ShouldRetry_Never(attempt) == FALSE

ShouldRetry(attempt) == attempt < GotRetryLimit

\* the request in flight fails with a transport error (ECONNRESET,
\* ETIMEDOUT, ...): got sends it again, or rejects once the retries are spent
TransportError(id) ==
  /\ At(id, RetryPcs) /\ ~task[id].aborted
  /\ Commit(IF ShouldRetry(task[id].attempt)
            THEN [S EXCEPT !.task[id].attempt = @ + 1]
            ELSE Catch(S, id, "RequestError", "transport error"))
  /\ UNCHANGED_HISTORY

\* the awaited operation rejects, or the continuation throws, with an Error
\* that is not retried (HTTP 404, invalid manifest, disk error, encoder
\* failure)
TaskError(id) ==
  /\ At(id, AwaitPcs)
  /\ Commit(Catch(S, id, "Error", "failure"))
  /\ UNCHANGED_HISTORY

Next ==
  \/ \E stream \in Streams : DownloadRequest(stream)
  \/ \E id \in Ids : CancelDownload(id)
  \/ \E id \in Ids, drm \in BOOLEAN : ManifestResponse(id, drm)
  \/ \E id \in Ids, n \in SegmentCounts, drm \in BOOLEAN :
       PlaylistResponse(id, n, drm)
  \/ \E id \in Ids, n \in SegmentCounts, init \in BOOLEAN, drm \in BOOLEAN :
       MpdResponse(id, n, init, drm)
  \/ \E id \in Ids : ImportDone(id)
  \/ \E id \in Ids : MkdirDone(id)
  \/ \E id \in Ids : InitFetched(id)
  \/ \E id \in Ids : InitWritten(id)
  \/ \E id \in Ids : SegmentFetched(id)
  \/ \E id \in Ids : SegmentWritten(id)
  \/ \E id \in Ids : MergeDone(id)
  \/ \E id \in Ids : ConcatDone(id)
  \/ \E id \in Ids : RmDone(id)
  \/ \E id \in Ids : DirectProgress(id)
  \/ \E id \in Ids : DirectFinish(id)
  \/ \E id \in Ids : AbortObserved(id)
  \/ \E id \in Ids : TransportError(id)
  \/ \E id \in Ids : TaskError(id)

Spec == Init /\ [][Next]_vars

\* the streams and playlists of SpecSched
SchedStreams == {[type |-> "hls", protection |-> "none"],
                 [type |-> "direct", protection |-> "none"],
                 [type |-> "unknown", protection |-> "none"]}

NextSched ==
  \/ \E stream \in SchedStreams : DownloadRequest(stream)
  \/ \E id \in Ids : CancelDownload(id)
  \/ \E id \in Ids : ManifestResponse(id, FALSE)
  \/ \E id \in Ids : PlaylistResponse(id, SchedSegments, FALSE)
  \/ \E id \in Ids : MkdirDone(id)
  \/ \E id \in Ids : SegmentFetched(id)
  \/ \E id \in Ids : SegmentWritten(id)
  \/ \E id \in Ids : MergeDone(id)
  \/ \E id \in Ids : ConcatDone(id)
  \/ \E id \in Ids : RmDone(id)
  \/ \E id \in Ids : DirectFinish(id)
  \/ \E id \in Ids : AbortObserved(id)
  \/ \E id \in Ids : TaskError(id)

SpecSched == InitSched /\ [][NextSched]_vars

\* the continuations of the task of job id: the awaited operation settles
TaskStep(id) ==
  \/ ManifestResponse(id, FALSE)
  \/ PlaylistResponse(id, SchedSegments, FALSE)
  \/ MkdirDone(id)
  \/ SegmentFetched(id)
  \/ SegmentWritten(id)
  \/ MergeDone(id)
  \/ ConcatDone(id)
  \/ RmDone(id)
  \/ DirectFinish(id)
  \/ AbortObserved(id)
  \/ TaskError(id)

\* the streams of SpecSchedFair: one whose task awaits a transfer and one
\* whose task throws before it awaits anything
FairStreams == {[type |-> "direct", protection |-> "none"],
                [type |-> "unknown", protection |-> "none"]}

NextSchedFair ==
  \/ \E stream \in FairStreams : DownloadRequest(stream)
  \/ \E id \in Ids : CancelDownload(id)
  \/ \E id \in Ids : DirectFinish(id)
  \/ \E id \in Ids : AbortObserved(id)
  \/ \E id \in Ids : TaskError(id)

\* every operation a task awaits settles in the end (the network and the
\* file system answer, got gives up after its timeout)
SpecSchedFair ==
  InitSched /\ [][NextSchedFair]_vars
            /\ \A id \in 1..MaxJobs : WF_vars(TaskStep(id))

(* ----------------------------------------------------- yt-dlp downloads *)
\* YtdlpManager.parseSize
ParseSize(value, unit) ==
  value * (CASE unit = "B" -> 1
             [] unit = "KiB" -> 1024
             [] unit = "MiB" -> 1024 * 1024
             [] unit = "GiB" -> 1024 * 1024 * 1024
             [] unit = "KB" -> 1000
             [] unit = "MB" -> 1000 * 1000
             [] unit = "GB" -> 1000 * 1000 * 1000
             [] OTHER -> 1)

\* the "[download] <percentage>% of <totalSize><totalUnit> at ..." lines the
\* helper prints: every downloaded file (video, then audio) counts from 0 to
\* 100 again
YtdlpLines ==
  [percentage : {0, 50, 100}, totalSize : {2}, totalUnit : {"KiB"}]

\* lastProgress as the stdout handler of download() computes it from a line
YtdlpProgress(line) ==
  [downloadedBytes |->
     (ParseSize(line.totalSize, line.totalUnit) * line.percentage) \div 100,
   percentage |-> line.percentage, currentSegment |-> 0, totalSegments |-> 0]

\* the key download() registers the process of job id under:
\* `ytdlp-${Date.now()}`, made inside download() and never the id that
\* handleYtdlpDownload generated and reported (here: no positive number)
YtdlpKey(id) == 0 - id

\* YtdlpManager.cancelDownload(jobId)
YtdlpCancelDownload(procs, jobId) ==
  [id \in DOMAIN procs |->
     IF procs[id].registered /\ YtdlpKey(id) = jobId
     THEN [procs[id] EXCEPT !.signals = Append(@, "SIGTERM"),
                            !.registered = FALSE]
     ELSE procs[id]]

\* the ids handleYtdlpDownload has not used yet
FreeYtdlpIds == {id \in Ids : ytdlp[id].pc = "none"}

\* handleNativeMessage, case 'DOWNLOAD_REQUEST' with stream.type 'ytdlp' and
\* the helper available: handleYtdlpDownload up to the spawn in download()
YtdlpDownloadRequest ==
  /\ FreeYtdlpIds # {}
  /\ LET id == CHOOSE x \in FreeYtdlpIds : \A y \in FreeYtdlpIds : x <= y
     IN /\ Commit(SendPendingProgress(S, id))
        /\ ytdlp' = [ytdlp EXCEPT ![id].pc = "running",
                                  ![id].registered = TRUE]
  /\ UNCHANGED <<cancelRequested, cancelledPending, host, wire, sentFrames,
                 roundTrip, call, extension>>

\* proc.stdout 'data' with a progress line: onProgress(lastProgress)
YtdlpProgressLine(id, line) ==
  /\ ytdlp[id].pc = "running"
  /\ ytdlp[id].lines < MaxYtdlpLines
  /\ Commit(OnProgress(S, id, YtdlpProgress(line)))
  /\ ytdlp' = [ytdlp EXCEPT ![id].lines = @ + 1,
                            ![id].lastProgress = YtdlpProgress(line)]
  /\ UNCHANGED <<cancelRequested, cancelledPending, host, wire, sentFrames,
                 roundTrip, call, extension>>

\* proc 'close': DOWNLOAD_COMPLETE for exit code 0, DOWNLOAD_ERROR otherwise
YtdlpClose(id, code) ==
  /\ ytdlp[id].pc = "running"
  /\ Commit(Emit(S, id, IF code = 0
                        THEN [kind |-> "complete", status |-> "completed",
                              progress |-> ytdlp[id].lastProgress]
                        ELSE [kind |-> "error", status |-> "failed",
                              progress |-> ytdlp[id].lastProgress]))
  /\ ytdlp' = [ytdlp EXCEPT ![id].pc = "done", ![id].registered = FALSE]
  /\ UNCHANGED <<cancelRequested, cancelledPending, host, wire, sentFrames,
                 roundTrip, call, extension>>

NextYtdlp ==
  \/ YtdlpDownloadRequest
  \/ \E id \in Ids : CancelDownload(id)
  \/ \E id \in Ids, line \in YtdlpLines : YtdlpProgressLine(id, line)
  \/ \E id \in Ids, code \in {0, 1} : YtdlpClose(id, code)

SpecYtdlp == Init /\ [][NextYtdlp]_vars

(* -------------------------------------------------- bytes and Buffers *)
\* the printable ASCII characters, from code 32 on (the grave accent, code
\* 96, is left out: its place holds the empty string)
AsciiChars ==
  <<" ", "!", "\"", "#", "$", "%", "&", "'", "(", ")", "*", "+", ",", "-",
    ".", "/", "0", "1", "2", "3", "4", "5", "6", "7", "8", "9", ":", ";",
    "<", "=", ">", "?", "@", "A", "B", "C", "D", "E", "F", "G", "H", "I",
    "J", "K", "L", "M", "N", "O", "P", "Q", "R", "S", "T", "U", "V", "W",
    "X", "Y", "Z", "[", "\\", "]", "^", "_", "", "a", "b", "c", "d", "e",
    "f", "g", "h", "i", "j", "k", "l", "m", "n", "o", "p", "q", "r", "s",
    "t", "u", "v", "w", "x", "y", "z", "{", "|", "}", "~">>

Code(c) == 31 + (CHOOSE k \in DOMAIN AsciiChars : AsciiChars[k] = c)

\* Buffer.from(text, 'utf8') for ASCII text, as a list of byte values
Bytes(chars) == [k \in DOMAIN chars |-> Code(chars[k])]

\* A Buffer is held as its runs of equal bytes, [b |-> byte, n |-> count],
\* so that a body of a megabyte of blanks is one run.
BufferFrom(bytes) ==
  LET starts == SelectSeq([k \in 1..Len(bytes) |-> k],
                          LAMBDA k : k = 1 \/ bytes[k] # bytes[k - 1])
      end(j) == IF j < Len(starts) THEN starts[j + 1] ELSE Len(bytes) + 1
  IN [j \in 1..Len(starts) |->
        [b |-> bytes[starts[j]], n |-> end(j) - starts[j]]]

\* the number of bytes in the runs lo..hi of a Buffer (halving, so that the
\* evaluation stays shallow on long Buffers)
RECURSIVE RunsLength(_, _, _)
RunsLength(buf, lo, hi) ==
  IF lo > hi THEN 0
  ELSE IF lo = hi THEN buf[lo].n
  ELSE RunsLength(buf, lo, (lo + hi) \div 2)
         + RunsLength(buf, (lo + hi) \div 2 + 1, hi)

BufferLength(buf) == RunsLength(buf, 1, Len(buf))

\* the offset of the first byte of run j
RunStart(buf, j) == RunsLength(buf, 1, j - 1)

\* the run that holds the byte at offset k, k < BufferLength(buf)
RunAt(buf, k) ==
  CHOOSE j \in 1..Len(buf) : RunStart(buf, j) <= k /\ k < RunStart(buf, j + 1)

\* Buffer.concat([a, b])
BufferConcat(a, b) ==
  IF a = <<>> THEN b
  ELSE IF b = <<>> THEN a
  ELSE IF a[Len(a)].b = Head(b).b
  THEN SubSeq(a, 1, Len(a) - 1)
         \o <<[b |-> Head(b).b, n |-> a[Len(a)].n + Head(b).n]>> \o Tail(b)
  ELSE a \o b

\* buf.slice(k)
BufferDrop(buf, k) ==
  IF k = 0 THEN buf
  ELSE IF k >= BufferLength(buf) THEN <<>>
  ELSE LET j == RunAt(buf, k)
       IN <<[buf[j] EXCEPT !.n = RunStart(buf, j + 1) - k]>>
            \o SubSeq(buf, j + 1, Len(buf))

\* buf.slice(0, k)
BufferTake(buf, k) ==
  IF k = 0 THEN <<>>
  ELSE IF k >= BufferLength(buf) THEN buf
  ELSE LET j == RunAt(buf, k - 1)
       IN SubSeq(buf, 1, j - 1) \o <<[buf[j] EXCEPT !.n = k - RunStart(buf, j)]>>

\* buf[k], k counted from 0
ByteAt(buf, k) == buf[RunAt(buf, k)].b

\* buf.readUInt32LE(0)
ReadUInt32LE(buf) ==
  ByteAt(buf, 0) + 256 * ByteAt(buf, 1) + 65536 * ByteAt(buf, 2)
    + 16777216 * ByteAt(buf, 3)

\* lengthBuffer.writeUInt32LE(n, 0)
WriteUInt32LE(n) ==
  <<n % 256, (n \div 256) % 256, (n \div 65536) % 256,
    (n \div 16777216) % 256>>

\* the bytes of the runs lo..hi as a list
RECURSIVE RunsBytes(_, _, _)
RunsBytes(buf, lo, hi) ==
  IF lo > hi THEN <<>>
  ELSE IF lo = hi THEN [k \in 1..buf[lo].n |-> buf[lo].b]
  ELSE RunsBytes(buf, lo, (lo + hi) \div 2)
         \o RunsBytes(buf, (lo + hi) \div 2 + 1, hi)

\* messageBuffer as a list of bytes (for the short texts JSON.parse reads)
BufferBytes(buf) == RunsBytes(buf, 1, Len(buf))

(* ------------------------------------------- JavaScript values and JSON *)
\* A JavaScript value: t is its kind, n the value of a finite number
\* (doubles are held as integers, quotients truncated), s the bytes of a
\* string, kv the members of an object in insertion order.
JsValue(t, n, s, kv) == [t |-> t, n |-> n, s |-> s, kv |-> kv]

Num(n) == JsValue("number", n, <<>>, <<>>)
NaN == JsValue("NaN", 0, <<>>, <<>>)
Infinity == JsValue("Infinity", 0, <<>>, <<>>)
Null == JsValue("null", 0, <<>>, <<>>)
Undefined == JsValue("undefined", 0, <<>>, <<>>)
Str(chars) == JsValue("string", 0, Bytes(chars), <<>>)
Obj(kv) == JsValue("object", 0, <<>>, kv)
Member(chars, v) == [k |-> Bytes(chars), v |-> v]

\* what JSON.parse throws
SyntaxError == JsValue("SyntaxError", 0, <<>>, <<>>)

\* a / b on doubles
JsDiv(a, b) ==
  IF a.t = "NaN" \/ b.t = "NaN" THEN NaN
  ELSE IF a.t = "Infinity" THEN (IF b.t = "Infinity" THEN NaN ELSE Infinity)
  ELSE IF b.t = "Infinity" THEN Num(0)
  ELSE IF b.n = 0 THEN (IF a.n = 0 THEN NaN ELSE Infinity)
  ELSE Num(a.n \div b.n)

\* a * b on doubles
JsMul(a, b) ==
  IF a.t = "NaN" \/ b.t = "NaN" THEN NaN
  ELSE IF a.t = "Infinity" \/ b.t = "Infinity"
  THEN (IF (a.t = "number" /\ a.n = 0) \/ (b.t = "number" /\ b.n = 0)
        THEN NaN ELSE Infinity)
  ELSE Num(a.n * b.n)

\* the decimal digits of a non-negative integer
RECURSIVE Digits(_)
Digits(n) ==
  IF n < 10 THEN <<Code("0") + n>>
  ELSE Digits(n \div 10) \o <<Code("0") + (n % 10)>>

\* JSON.stringify: non-finite numbers become null, members whose value is
\* undefined are left out
RECURSIVE JsonStringify(_)
RECURSIVE StringifyMembers(_, _)
JsonStringify(v) ==
  CASE v.t = "number" -> Digits(v.n)
    [] v.t \in {"NaN", "Infinity", "null"} -> Bytes(<<"n", "u", "l", "l">>)
    [] v.t = "string" -> <<Code("\"")>> \o v.s \o <<Code("\"")>>
    [] v.t = "object" ->
         <<Code("{")>> \o StringifyMembers(v.kv, TRUE) \o <<Code("}")>>

StringifyMembers(kv, first) ==
  IF kv = <<>> THEN <<>>
  ELSE IF Head(kv).v.t = "undefined" THEN StringifyMembers(Tail(kv), first)
  ELSE (IF first THEN <<>> ELSE <<Code(",")>>)
         \o <<Code("\"")>> \o Head(kv).k \o <<Code("\""), Code(":")>>
         \o JsonStringify(Head(kv).v)
         \o StringifyMembers(Tail(kv), FALSE)

\* JSON.parse, for texts made of non-negative integers, null, strings
\* without escapes and objects; a parse result is [ok, v, i] with i the
\* index after the value
IsWhitespace(c) == c \in {9, 10, 13, Code(" ")}
IsDigit(c) == c \in Code("0")..Code("9")
ParseFail == [ok |-> FALSE, v |-> SyntaxError, i |-> 0]
Parsed(v, i) == [ok |-> TRUE, v |-> v, i |-> i]

RECURSIVE SkipWhitespace(_, _)
SkipWhitespace(t, i) ==
  IF i <= Len(t) /\ IsWhitespace(t[i]) THEN SkipWhitespace(t, i + 1) ELSE i

\* the index after the digits that start at i
RECURSIVE DigitsEnd(_, _)
DigitsEnd(t, i) ==
  IF i <= Len(t) /\ IsDigit(t[i]) THEN DigitsEnd(t, i + 1) ELSE i

\* the value of the digits t[i..j-1]
RECURSIVE DigitsValue(_, _, _)
DigitsValue(t, i, j) ==
  IF j <= i THEN 0
  ELSE 10 * DigitsValue(t, i, j - 1) + (t[j - 1] - Code("0"))

ParseNumber(t, i) ==
  LET j == DigitsEnd(t, i)
  IN IF t[i] = Code("0") /\ j > i + 1 THEN ParseFail
     ELSE Parsed(Num(DigitsValue(t, i, j)), j)

\* the index of the quote that closes the string whose text starts at i
RECURSIVE StringEnd(_, _)
StringEnd(t, i) ==
  IF i > Len(t) THEN 0
  ELSE IF t[i] = Code("\"") THEN i
  ELSE IF t[i] = Code("\\") \/ t[i] < Code(" ") THEN 0
  ELSE StringEnd(t, i + 1)

\* t[i] is the opening quote
ParseString(t, i) ==
  LET j == StringEnd(t, i + 1)
  IN IF j = 0 THEN ParseFail
     ELSE Parsed(JsValue("string", 0, SubSeq(t, i + 1, j - 1), <<>>), j + 1)

RECURSIVE ParseValue(_, _)
RECURSIVE ParseMembers(_, _, _)
ParseValue(t, i0) ==
  LET i == SkipWhitespace(t, i0)
  IN IF i > Len(t) THEN ParseFail
     ELSE IF IsDigit(t[i]) THEN ParseNumber(t, i)
     ELSE IF t[i] = Code("\"") THEN ParseString(t, i)
     ELSE IF t[i] = Code("n")
     THEN (IF i + 3 <= Len(t)
              /\ SubSeq(t, i, i + 3) = Bytes(<<"n", "u", "l", "l">>)
           THEN Parsed(Null, i + 4) ELSE ParseFail)
     ELSE IF t[i] = Code("{")
     THEN ParseMembers(t, SkipWhitespace(t, i + 1), <<>>)
     ELSE ParseFail

\* t[i] starts a member, or closes the object when there is no member yet
ParseMembers(t, i, acc) ==
  IF i > Len(t) THEN ParseFail
  ELSE IF t[i] = Code("}") /\ acc = <<>> THEN Parsed(Obj(acc), i + 1)
  ELSE IF t[i] # Code("\"") THEN ParseFail
  ELSE LET key == ParseString(t, i)
           c == SkipWhitespace(t, key.i)
       IN IF ~key.ok \/ c > Len(t) THEN ParseFail
          ELSE IF t[c] # Code(":") THEN ParseFail
          ELSE LET val == ParseValue(t, c + 1)
                   d == SkipWhitespace(t, val.i)
                   acc1 == Append(acc, [k |-> key.v.s, v |-> val.v])
               IN IF ~val.ok \/ d > Len(t) THEN ParseFail
                  ELSE IF t[d] = Code("}") THEN Parsed(Obj(acc1), d + 1)
                  ELSE IF t[d] = Code(",")
                  THEN ParseMembers(t, SkipWhitespace(t, d + 1), acc1)
                  ELSE ParseFail

JsonParse(t) ==
  LET r == ParseValue(t, 1)
  IN IF r.ok /\ SkipWhitespace(t, r.i) > Len(t) THEN r.v ELSE SyntaxError

(* ------------------------------------------------ native messaging host *)
\* the variables of the downloads, which the host's pipes do not touch
downloadVars ==
  <<jobs, queue, activeDownloads, abortControllers, maxConcurrent,
    ffmpegAvailable, task, scratch, events, cancelRequested,
    cancelledPending, ytdlp>>

\* console.log(text): the text and a newline are written to process.stdout
ConsoleLog(h, bytes) ==
  [h EXCEPT !.stdout = BufferConcat(@, BufferFrom(bytes \o <<10>>))]

\* '[AIGrabber] Native messaging host started'
StartedText ==
  Bytes(
    <<"[", "A", "I", "G", "r", "a", "b", "b", "e", "r", "]", " ", "N", "a",
      "t", "i", "v", "e", " ", "m", "e", "s", "s", "a", "g", "i", "n", "g",
      " ", "h", "o", "s", "t", " ", "s", "t", "a", "r", "t", "e", "d">>)

\* '[AIGrabber] Received native message:'
ReceivedText ==
  Bytes(
    <<"[", "A", "I", "G", "r", "a", "b", "b", "e", "r", "]", " ", "R", "e",
      "c", "e", "i", "v", "e", "d", " ", "n", "a", "t", "i", "v", "e", " ",
      "m", "e", "s", "s", "a", "g", "e", ":">>)

UndefinedText == Bytes(<<"u", "n", "d", "e", "f", "i", "n", "e", "d">>)

\* message[key] of a parsed message
RECURSIVE Lookup(_, _)
Lookup(kv, key) ==
  IF kv = <<>> THEN Undefined
  ELSE IF kv[Len(kv)].k = key THEN kv[Len(kv)].v
  ELSE Lookup(SubSeq(kv, 1, Len(kv) - 1), key)

Field(message, chars) ==
  IF message.t = "object" THEN Lookup(message.kv, Bytes(chars)) ELSE Undefined

\* app.getVersion() and Date.now() as the host sees them
AppVersion == Str(<<"1", ".", "0", ".", "0">>)
Now == Num(1)

\* NativeMessagingHost.sendMessage: two writes to process.stdout
SendMessage(h, message) ==
  LET buffer == JsonStringify(message)
      lengthBuffer == WriteUInt32LE(Len(buffer))
  IN [h EXCEPT !.stdout = BufferConcat(BufferConcat(@, BufferFrom(lengthBuffer)),
                                       BufferFrom(buffer))]

\* handleNativeMessage for the messages that do not reach the downloader:
\* the log line, then PONG for PING
HandleNativeMessage(h, message) ==
  LET type == Field(message, <<"t", "y", "p", "e">>)
      h1 == ConsoleLog(h, ReceivedText \o <<Code(" ")>>
                            \o (IF type.t = "string" THEN type.s
                                ELSE UndefinedText))
  IN IF type = Str(<<"P", "I", "N", "G">>)
     THEN SendMessage(h1, Obj(<<Member(<<"t", "y", "p", "e">>,
                                        Str(<<"P", "O", "N", "G">>)),
                                 Member(<<"v", "e", "r", "s", "i", "o", "n">>,
                                        AppVersion),
                                 Member(<<"t", "i", "m", "e", "s", "t", "a",
                                          "m", "p">>, Now)>>))
     ELSE h1

\* options.onMessage(message)
OnMessage(h, message) ==
  HandleNativeMessage([h EXCEPT !.received = Append(@, message)], message)

\* a Buffer without its leading and trailing runs of JSON whitespace
RECURSIVE TrimWhitespace(_)
TrimWhitespace(buf) ==
  IF buf = <<>> THEN buf
  ELSE IF IsWhitespace(Head(buf).b) THEN TrimWhitespace(Tail(buf))
  ELSE IF IsWhitespace(buf[Len(buf)].b)
  THEN TrimWhitespace(SubSeq(buf, 1, Len(buf) - 1))
  ELSE buf

\* JSON.parse(messageBuffer.toString('utf8')); the whitespace around the
\* value, which JSON.parse skips, is cut off before the text is spelled out
ParseBody(messageBuffer) == JsonParse(BufferBytes(TrimWhitespace(messageBuffer)))

\* the loop condition of handleData and the check that follows it
FrameReady(h) ==
  /\ BufferLength(h.buffer) >= 4
  /\ BufferLength(h.buffer) >= 4 + ReadUInt32LE(h.buffer)

\* a decoder that empties its buffer when a body does not parse
DecodeFrame_ResetOnError(h) ==
  LET messageLength == ReadUInt32LE(h.buffer)
      message == ParseBody(BufferTake(BufferDrop(h.buffer, 4), messageLength))
  IN IF message = SyntaxError
     THEN [h EXCEPT !.buffer = <<>>]
     ELSE OnMessage([h EXCEPT !.buffer = BufferDrop(@, 4 + messageLength)],
                    message)

\* one pass of the loop body of handleData: slice the frame off the buffer,
\* parse it, hand it to onMessage; a parse error is logged to stderr
DecodeFrame(h) ==
  LET messageLength == ReadUInt32LE(h.buffer)
      message == ParseBody(BufferTake(BufferDrop(h.buffer, 4), messageLength))
      h1 == [h EXCEPT !.buffer = BufferDrop(@, 4 + messageLength)]
  IN IF message = SyntaxError THEN h1 ELSE OnMessage(h1, message)

RECURSIVE DecodeLoop(_)
DecodeLoop(h) == IF FrameReady(h) THEN DecodeLoop(DecodeFrame(h)) ELSE h

\* handleData decoding at most one frame per chunk
HandleData_OneFrame(h, data) ==
  LET h1 == [h EXCEPT !.buffer = BufferConcat(@, data)]
  IN IF FrameReady(h1) THEN DecodeFrame(h1) ELSE h1

\* NativeMessagingHost.handleData
HandleData(h, data) == DecodeLoop([h EXCEPT !.buffer = BufferConcat(@, data)])

\* the frame bodies the browser side writes: a PING message, a bare number,
\* a cut-off object, an empty body and a number followed by a MiB of blanks
OneMiB == 1024 * 1024

PingBody ==
  BufferFrom(JsonStringify(Obj(<<Member(<<"t", "y", "p", "e">>,
                                        Str(<<"P", "I", "N", "G">>))>>)))
NumberBody == BufferFrom(Bytes(<<"7">>))
BrokenBody == BufferFrom(Bytes(<<"{", "\"", "a">>))
EmptyBody == <<>>
HugeBody == BufferConcat(NumberBody, <<[b |-> Code(" "), n |-> OneMiB]>>)

Bodies == {PingBody, NumberBody, BrokenBody, EmptyBody, HugeBody}

\* a frame as the browser writes it: 32-bit length in native byte order
\* (little-endian), then the body
WireFrame(body) ==
  BufferConcat(BufferFrom(WriteUInt32LE(BufferLength(body))), body)

\* the sizes of the chunk the next 'data' event of stdin may carry: up to
\* MaxChunk bytes or all that is on the pipe; a run of a MiB or more comes
\* in one piece
SmallPrefix(w) ==
  LET huge == {j \in 1..Len(w) : w[j].n >= OneMiB}
  IN IF huge = {} THEN BufferLength(w)
     ELSE RunStart(w, CHOOSE j \in huge : \A i \in huge : j <= i)

ChunkSizes(w) ==
  IF w = <<>> THEN {}
  ELSE IF Head(w).n >= OneMiB THEN {Head(w).n}
  ELSE {n \in 1..MaxChunk : n <= SmallPrefix(w)} \cup {SmallPrefix(w)}

\* NativeMessagingHost.start(): the stdin listeners are registered and the
\* start is logged
HostStart ==
  /\ ~host.started
  /\ host' = ConsoleLog([host EXCEPT !.started = TRUE], StartedText)
  /\ UNCHANGED <<downloadVars, wire, sentFrames, roundTrip, call, extension>>

\* the browser writes one more frame to the host's stdin pipe
BrowserWrites(body) ==
  /\ Len(sentFrames) < MaxFrames
  /\ wire' = BufferConcat(wire, WireFrame(body))
  /\ sentFrames' = Append(sentFrames, body)
  /\ UNCHANGED <<downloadVars, host, roundTrip, call, extension>>

\* process.stdin 'data': the next n bytes of the pipe go to handleData
StdinData(n) ==
  /\ host.started
  /\ host' = HandleData(host, BufferTake(wire, n))
  /\ wire' = BufferDrop(wire, n)
  /\ UNCHANGED <<downloadVars, sentFrames, roundTrip, call, extension>>

InitCodec ==
  /\ InitWith(1..MaxPipelineJobs, {DefaultMaxConcurrent})
  /\ ffmpegAvailable
  /\ HostIdle

NextCodec ==
  \/ HostStart
  \/ \E body \in Bodies : BrowserWrites(body)
  \/ \E n \in ChunkSizes(wire) : StdinData(n)

SpecCodec == InitCodec /\ [][NextCodec]_vars

(* ------------------------------------------ progress values on the wire *)
\* the inputs of the progress computations: bytes downloaded so far and
\* milliseconds between startTime and Date.now()
ByteCounts == {0, 1000, 2000}
ElapsedMillis == {0, 1000}

\* downloadedBytes / elapsed, elapsed being the milliseconds / 1000
Speed(downloadedBytes, elapsedMs) ==
  JsDiv(Num(downloadedBytes * 1000), Num(elapsedMs))

\* job.progress of downloadHLS after segment i of totalSegments
HlsProgress(downloadedBytes, elapsedMs, i, totalSegments) ==
  LET speed == Speed(downloadedBytes, elapsedMs)
      remaining == totalSegments - (i + 1)
      avgSegmentSize == JsDiv(Num(downloadedBytes), Num(i + 1))
      eta == JsMul(Num(remaining), JsDiv(avgSegmentSize, speed))
  IN Obj(<<Member(<<"d", "o", "w", "n", "l", "o", "a", "d", "e", "d", "B", "y", "t", "e", "s">>,
                  Num(downloadedBytes)),
           Member(<<"t", "o", "t", "a", "l", "B", "y", "t", "e", "s">>,
                  JsMul(avgSegmentSize, Num(totalSegments))),
           Member(<<"s", "p", "e", "e", "d">>, speed),
           Member(<<"e", "t", "a">>, eta),
           Member(<<"p", "e", "r", "c", "e", "n", "t", "a", "g", "e">>,
                  Num(Percentage(i + 1, totalSegments))),
           Member(<<"c", "u", "r", "r", "e", "n", "t", "S", "e", "g", "m", "e", "n", "t">>,
                  Num(i + 1)),
           Member(<<"t", "o", "t", "a", "l", "S", "e", "g", "m", "e", "n", "t", "s">>,
                  Num(totalSegments))>>)

\* job.progress of downloadDASH after segment i of totalSegments
DashProgress(downloadedBytes, elapsedMs, i, totalSegments) ==
  Obj(<<Member(<<"d", "o", "w", "n", "l", "o", "a", "d", "e", "d", "B", "y", "t", "e", "s">>,
               Num(downloadedBytes)),
        Member(<<"t", "o", "t", "a", "l", "B", "y", "t", "e", "s">>, Num(0)),
        Member(<<"s", "p", "e", "e", "d">>,
               Speed(downloadedBytes, elapsedMs)),
        Member(<<"e", "t", "a">>, Num(0)),
        Member(<<"p", "e", "r", "c", "e", "n", "t", "a", "g", "e">>,
               Num(Percentage(i + 1, totalSegments))),
        Member(<<"c", "u", "r", "r", "e", "n", "t", "S", "e", "g", "m", "e", "n", "t">>,
               Num(i + 1)),
        Member(<<"t", "o", "t", "a", "l", "S", "e", "g", "m", "e", "n", "t", "s">>,
               Num(totalSegments))>>)

\* job.progress of downloadDirect on a 'downloadProgress' event; total = 0
\* stands for a transfer of unknown size (progress.total undefined)
DirectProgressOf(transferred, total, elapsedMs) ==
  LET speed == Speed(transferred, elapsedMs)
      eta == IF total # 0 THEN JsDiv(Num(total - transferred), speed)
             ELSE Num(0)
      percent == IF total # 0 THEN (transferred * 100) \div total ELSE 0
  IN Obj(<<Member(<<"d", "o", "w", "n", "l", "o", "a", "d", "e", "d", "B", "y", "t", "e", "s">>,
                  Num(transferred)),
           Member(<<"t", "o", "t", "a", "l", "B", "y", "t", "e", "s">>,
                  Num(total)),
           Member(<<"s", "p", "e", "e", "d">>, speed),
           Member(<<"e", "t", "a">>, eta),
           Member(<<"p", "e", "r", "c", "e", "n", "t", "a", "g", "e">>,
                  Num(percent))>>)

\* the progress values the three download functions can compute
ProducibleProgress ==
  {HlsProgress(b, e, i, n) :
     b \in ByteCounts, e \in ElapsedMillis,
     i \in 0..(MaxSegments - 1), n \in 1..MaxSegments}
  \cup {DashProgress(b, e, i, n) :
          b \in ByteCounts, e \in ElapsedMillis,
          i \in 0..(MaxSegments - 1), n \in 1..MaxSegments}
  \cup {DirectProgressOf(b, t, e) :
          b \in ByteCounts, t \in {0, 2000}, e \in ElapsedMillis}

\* the DOWNLOAD_PROGRESS message the onProgress sink hands to sendMessage
ProgressMessage(progress) ==
  Obj(<<Member(<<"t", "y", "p", "e">>,
               Str(<<"D", "O", "W", "N", "L", "O", "A", "D", "_", "P", "R", "O", "G", "R", "E", "S", "S">>)),
        Member(<<"j", "o", "b", "I", "d">>, Str(<<"1">>)),
        Member(<<"p", "r", "o", "g", "r", "e", "s", "s">>, progress),
        Member(<<"s", "t", "a", "t", "u", "s">>,
               Str(<<"d", "o", "w", "n", "l", "o", "a", "d", "i", "n", "g">>)),
        Member(<<"t", "i", "m", "e", "s", "t", "a", "m", "p">>, Now)>>)

\* sendMessage writes the frame of the message to an empty stdout
RoundTripSend ==
  /\ roundTrip.pc = "input"
  /\ roundTrip' = [roundTrip EXCEPT
                     !.pc = "sent",
                     !.frame = SendMessage(NoHost, roundTrip.message).stdout]
  /\ UNCHANGED <<downloadVars, host, wire, sentFrames, call, extension>>

\* handleData of a decoder with an empty buffer reads the frame
RoundTripReceive ==
  /\ roundTrip.pc = "sent"
  /\ roundTrip' = [roundTrip EXCEPT
                     !.pc = "received",
                     !.decoded = HandleData(NoHost, roundTrip.frame).received]
  /\ UNCHANGED <<downloadVars, host, wire, sentFrames, call, extension>>

InitRoundTrip ==
  /\ InitWith(1..MaxPipelineJobs, {DefaultMaxConcurrent})
  /\ ffmpegAvailable
  /\ host = NoHost
  /\ wire = <<>>
  /\ sentFrames = <<>>
  /\ call = NoCall
  /\ extension = NoExtension
  /\ \E progress \in ProducibleProgress :
       roundTrip = [NoRoundTrip EXCEPT !.pc = "input",
                                       !.message = ProgressMessage(progress)]

NextRoundTrip == RoundTripSend \/ RoundTripReceive

SpecRoundTrip == InitRoundTrip /\ [][NextRoundTrip]_vars

(* ------------------------------------------------------- text (strings) *)
\* A string is the list of its characters.
WhitespaceChars == {" ", "\t", "\r", "\n"}

\* the character class [A-Z-]
UpperOrHyphen ==
  {"A", "B", "C", "D", "E", "F", "G", "H", "I", "J", "K", "L", "M", "N",
   "O", "P", "Q", "R", "S", "T", "U", "V", "W", "X", "Y", "Z", "-"}

DecimalDigits == <<"0", "1", "2", "3", "4", "5", "6", "7", "8", "9">>

\* the character class \d
DigitChars == {DecimalDigits[k] : k \in 1..10}

DigitValue(c) == (CHOOSE k \in 1..10 : DecimalDigits[k] = c) - 1

\* str.slice(from - 1, to): the characters from..to that exist
Slice(str, from, to) ==
  SubSeq(str, from, IF to > Len(str) THEN Len(str) ELSE to)

\* String.prototype.startsWith
StartsWith(str, prefix) ==
  Len(prefix) <= Len(str) /\ SubSeq(str, 1, Len(prefix)) = prefix

\* String.prototype.indexOf(pat, from), positions counted from 1; 0 when
\* pat does not occur
IndexOf(str, pat, from) ==
  LET hits == {k \in from..(Len(str) - Len(pat) + 1) :
                 SubSeq(str, k, k + Len(pat) - 1) = pat}
  IN IF hits = {} THEN 0 ELSE CHOOSE k \in hits : \A j \in hits : k <= j

\* String.prototype.includes
Includes(str, pat) == IndexOf(str, pat, 1) # 0

\* the first position from i on whose character is outside (inside) the
\* class, Len(str) + 1 when there is none
RunEnd(str, i, class) ==
  LET stops == {k \in i..Len(str) : str[k] \notin class}
  IN IF stops = {} THEN Len(str) + 1
     ELSE CHOOSE k \in stops : \A j \in stops : k <= j

RunBegin(str, i, class) ==
  LET starts == {k \in i..Len(str) : str[k] \in class}
  IN IF starts = {} THEN Len(str) + 1
     ELSE CHOOSE k \in starts : \A j \in starts : k <= j

\* String.prototype.trim
Trim(str) ==
  LET kept == {k \in DOMAIN str : str[k] \notin WhitespaceChars}
  IN IF kept = {} THEN <<>>
     ELSE SubSeq(str, CHOOSE k \in kept : \A j \in kept : k <= j,
                      CHOOSE k \in kept : \A j \in kept : k >= j)

\* the value of a run of decimal digits
RECURSIVE DecimalValue(_)
DecimalValue(digits) ==
  IF digits = <<>> THEN 0
  ELSE 10 * DecimalValue(SubSeq(digits, 1, Len(digits) - 1))
         + DigitValue(digits[Len(digits)])

\* parseInt(str, 10): leading whitespace and a sign are skipped, the digits
\* up to the first other character are read; NaN when there is no digit
ParseInt(str) ==
  LET start == RunEnd(str, 1, WhitespaceChars)
      signed == start <= Len(str) /\ str[start] \in {"-", "+"}
      first == IF signed THEN start + 1 ELSE start
      end == RunEnd(str, first, DigitChars)
      value == DecimalValue(SubSeq(str, first, end - 1))
  IN IF end = first THEN NaN
     ELSE Num(IF signed /\ str[start] = "-" THEN 0 - value ELSE value)

\* String(n) of an integer
RECURSIVE DecimalText(_)
DecimalText(n) ==
  IF n < 0 THEN <<"-">> \o DecimalText(0 - n)
  ELSE IF n < 10 THEN <<DecimalDigits[n + 1]>>
  ELSE DecimalText(n \div 10) \o <<DecimalDigits[(n % 10) + 1]>>

\* String.prototype.padStart(width, '0')
PadStart(str, width) ==
  [k \in 1..(IF width > Len(str) THEN width - Len(str) ELSE 0) |-> "0"] \o str

\* b - a on doubles that are integers, NaN or Infinity (the comparators)
JsSub(b, a) ==
  IF a.t = "number" /\ b.t = "number" THEN Num(b.n - a.n) ELSE NaN

(* --------------------------------------------------- HLS manifest parser *)
\* parseAttributes: every match of /([A-Z-]+)=(?:"([^"]+)"|([^,]+))/g from
\* position i on, a later match of a name replacing an earlier one; attrs
\* is a function from the names to the values
RECURSIVE ParseAttributesFrom(_, _, _)
ParseAttributesFrom(str, i, attrs) ==
  LET b == RunBegin(str, i, UpperOrHyphen)
      e == RunEnd(str, b, UpperOrHyphen)
      name == SubSeq(str, b, e - 1)
      v == e + 1
      close == IndexOf(str, <<"\"">>, v + 1)
      quoted == v <= Len(str) /\ str[v] = "\"" /\ close > v + 1
      comma == RunBegin(str, v, {","})
  IN IF b > Len(str) THEN attrs
     ELSE IF e > Len(str) \/ str[e] # "=" THEN ParseAttributesFrom(str, e, attrs)
     ELSE IF quoted
     THEN ParseAttributesFrom(str, close + 1,
                              (name :> SubSeq(str, v + 1, close - 1)) @@ attrs)
     ELSE IF comma > v
     THEN ParseAttributesFrom(str, comma,
                              (name :> SubSeq(str, v, comma - 1)) @@ attrs)
     ELSE ParseAttributesFrom(str, e, attrs)

ParseAttributes(str) == ParseAttributesFrom(str, 1, <<>>)

\* attrs.NAME || fallback
AttrOr(attrs, name, fallback) ==
  IF name \in DOMAIN attrs /\ attrs[name] # <<>> THEN attrs[name]
  ELSE fallback

\* resolveUrl: an absolute http(s) URL is kept; a file name is resolved
\* against the directory of the base URL (new URL(url, baseUrl).href for
\* references without dot segments, query or leading slash); when the base
\* is no URL, new URL throws and the reference is returned as it is
ResolveUrl(url, baseUrl) ==
  LET absolute(u) == StartsWith(u, <<"h", "t", "t", "p", ":", "/",
                                     "/">>) \/ StartsWith(u, <<"h", "t",
                                     "t", "p", "s", ":", "/", "/">>)
      slashes == {k \in DOMAIN baseUrl : baseUrl[k] = "/"}
      dir == SubSeq(baseUrl, 1, CHOOSE k \in slashes : \A j \in slashes : k >= j)
  IN IF absolute(url) \/ ~absolute(baseUrl) THEN url ELSE dir \o url

\* the sign test of Array.prototype.sort on what the comparator returned:
\* NaN counts as +0
Positive(v) == v.t = "number" /\ v.n > 0

\* (a, b) => b.bandwidth - a.bandwidth
BandwidthDescending(a, b) == JsSub(b.bandwidth, a.bandwidth)

\* (a, b) => a.bandwidth - b.bandwidth
BandwidthAscending(a, b) == JsSub(a.bandwidth, b.bandwidth)

\* one step of a stable sort: x goes behind the last element it does not
\* have to precede
InsertSorted(sorted, x, Compare(_, _)) ==
  LET stay == {k \in DOMAIN sorted : ~Positive(Compare(sorted[k], x))}
      at == IF stay = {} THEN 0 ELSE CHOOSE k \in stay : \A j \in stay : k >= j
  IN SubSeq(sorted, 1, at) \o <<x>> \o SubSeq(sorted, at + 1, Len(sorted))

\* variants.sort((a, b) => b.bandwidth - a.bandwidth): Array.prototype.sort
\* is stable
RECURSIVE SortDescending(_)
SortDescending(list) ==
  IF list = <<>> THEN <<>>
  ELSE InsertSorted(SortDescending(SubSeq(list, 1, Len(list) - 1)),
                    list[Len(list)], BandwidthDescending)

\* representations.sort((a, b) => a.bandwidth - b.bandwidth)
RECURSIVE SortAscending(_)
SortAscending(list) ==
  IF list = <<>> THEN <<>>
  ELSE InsertSorted(SortAscending(SubSeq(list, 1, Len(list) - 1)),
                    list[Len(list)], BandwidthAscending)

\* parseMasterPlaylist, the loop from line i on: acc holds variants and
\* isDRM (of a variant the url and the bandwidth are kept; the audio groups
\* are left out)
RECURSIVE MasterLines(_, _, _, _)
MasterLines(lines, baseUrl, i, acc) ==
  IF i > Len(lines) THEN acc
  ELSE
    LET line == lines[i]
        attrs == ParseAttributes(SubSeq(line, 19, Len(line)))
        pushed == /\ StartsWith(line, <<"#", "E", "X", "T", "-", "X", "-",
                                        "S", "T", "R", "E", "A", "M", "-",
                                        "I", "N", "F", ":">>)
                  /\ i < Len(lines)
                  /\ ~StartsWith(lines[i + 1], <<"#">>)
        variant == [url |-> ResolveUrl(lines[i + 1], baseUrl),
                    bandwidth |-> ParseInt(AttrOr(attrs, <<"B", "A", "N",
                                                           "D", "W", "I",
                                                           "D", "T", "H">>,
                                                           <<"0">>))]
        drm == \/ /\ Includes(line, <<"E", "X", "T", "-", "X", "-", "K",
                                      "E", "Y">>)
                  /\ Includes(line, <<"M", "E", "T", "H", "O", "D", "=",
                                      "S", "A", "M", "P", "L", "E", "-",
                                      "A", "E", "S">>)
               \/ Includes(line, <<"c", "o", "m", ".", "w", "i", "d", "e",
                                   "v", "i", "n", "e">>)
               \/ Includes(line, <<"c", "o", "m", ".", "a", "p", "p", "l",
                                   "e", ".", "f", "p", "s">>)
    IN MasterLines(lines, baseUrl, IF pushed THEN i + 2 ELSE i + 1,
                   [variants |-> IF pushed THEN Append(acc.variants, variant)
                                 ELSE acc.variants,
                    isDRM |-> acc.isDRM \/ drm])

\* parseMasterPlaylist without the sort of the variants
ParseMasterPlaylist_Unsorted(lines, baseUrl) ==
  LET r == MasterLines(lines, baseUrl, 1, [variants |-> <<>>,
                                                          isDRM |-> FALSE])
  IN [type |-> "master", variants |-> r.variants, isDRM |-> r.isDRM]

ParseMasterPlaylist(lines, baseUrl) ==
  LET r == MasterLines(lines, baseUrl, 1, [variants |-> <<>>,
                                                          isDRM |-> FALSE])
  IN [type |-> "master", variants |-> SortDescending(r.variants),
      isDRM |-> r.isDRM]

\* no #EXT-X-KEY line was read yet: currentKey is undefined
NoKey == [method |-> <<>>, uri |-> <<>>, keyFormat |-> <<>>]

\* currentKey of an #EXT-X-KEY line
KeyOf(line, baseUrl) ==
  LET attrs == ParseAttributes(SubSeq(line, 12, Len(line)))
  IN [method |-> AttrOr(attrs, <<"M", "E", "T", "H", "O", "D">>, <<"N", "O",
                                                                   "N",
                                                                   "E">>),
      uri |-> IF AttrOr(attrs, <<"U", "R", "I">>, <<>>) # <<>>
              THEN ResolveUrl(attrs[<<"U", "R", "I">>], baseUrl) ELSE <<>>,
      keyFormat |-> AttrOr(attrs, <<"K", "E", "Y", "F", "O", "R", "M", "A",
                                    "T">>, <<>>)]

\* the DRM test of parseMediaPlaylist taking every method but NONE for DRM
IsDrmKey_Aes128Too(key) ==
  \/ key.method # <<"N", "O", "N", "E">>
  \/ Includes(key.keyFormat, <<"w", "i", "d", "e", "v", "i", "n", "e">>)
  \/ Includes(key.keyFormat, <<"f", "a", "i", "r", "p", "l", "a", "y">>)

\* the DRM test parseMediaPlaylist applies to currentKey
IsDrmKey(key) ==
  \/ key.method # <<"N", "O", "N", "E">> /\ key.method # <<"A", "E", "S",
                                                           "-", "1", "2",
                                                           "8">>
  \/ Includes(key.keyFormat, <<"w", "i", "d", "e", "v", "i", "n", "e">>)
  \/ Includes(key.keyFormat, <<"f", "a", "i", "r", "p", "l", "a", "y">>)

\* parseMediaPlaylist, the loop from line i on: acc holds segments, isDRM,
\* currentKey and targetDuration (of a segment the uri and the key are
\* kept; the durations are left out)
RECURSIVE MediaLines(_, _, _, _)
MediaLines(lines, baseUrl, i, acc) ==
  IF i > Len(lines) THEN acc
  ELSE
    LET line == lines[i]
        isKey == StartsWith(line, <<"#", "E", "X", "T", "-", "X", "-", "K",
                                    "E", "Y", ":">>)
        key == IF isKey THEN KeyOf(line, baseUrl) ELSE acc.currentKey
        isUrl == ~StartsWith(line, <<"#">>) /\ Len(line) > 0
    IN MediaLines(lines, baseUrl, i + 1,
         [segments |-> IF isUrl
                       THEN Append(acc.segments,
                                   [uri |-> ResolveUrl(line, baseUrl),
                                    key |-> key])
                       ELSE acc.segments,
          isDRM |-> acc.isDRM \/ (isKey /\ IsDrmKey(key)),
          currentKey |-> key,
          targetDuration |->
            IF StartsWith(line, <<"#", "E", "X", "T", "-", "X", "-", "T",
                                  "A", "R", "G", "E", "T", "D", "U", "R",
                                  "A", "T", "I", "O", "N", ":">>)
            THEN ParseInt(SubSeq(line, 23, Len(line)))
            ELSE acc.targetDuration])

ParseMediaPlaylist(lines, baseUrl) ==
  LET r == MediaLines(lines, baseUrl, 1,
                      [segments |-> <<>>, isDRM |-> FALSE,
                       currentKey |-> NoKey, targetDuration |-> Num(0)])
  IN [type |-> "media", targetDuration |-> r.targetDuration,
      segments |-> r.segments, isDRM |-> r.isDRM,
      encryption |-> r.currentKey]

\* content.split('\n').map(line => line.trim()).filter(Boolean), content
\* given as the list of its lines
TrimmedLines(content) ==
  SelectSeq([k \in DOMAIN content |-> Trim(content[k])],
            LAMBDA line : line # <<>>)

\* what parseHLSManifest throws on a missing header
InvalidManifest == [type |-> "Error"]

\* parseHLSManifest
ParseHLSManifest(content, baseUrl) ==
  LET lines == TrimmedLines(content)
      isMaster == \E k \in DOMAIN lines :
                    StartsWith(lines[k], <<"#", "E", "X", "T", "-", "X",
                                           "-", "S", "T", "R", "E", "A",
                                           "M", "-", "I", "N", "F">>)
  IN IF lines = <<>> \/ ~StartsWith(lines[1], <<"#", "E", "X", "T", "M",
                                                "3", "U">>)
     THEN InvalidManifest
     ELSE IF isMaster THEN ParseMasterPlaylist(lines, baseUrl)
     ELSE ParseMediaPlaylist(lines, baseUrl)

\* getHLSProtection
GetHLSProtection(playlist) == IF playlist.isDRM THEN "drm" ELSE "none"

(* ----------------------------------------- calls of the manifest parsers *)
\* the state in which only one call of parser function fn is under way
InitCall(fn, inputs) ==
  /\ InitWith(1..MaxPipelineJobs, {DefaultMaxConcurrent})
  /\ ffmpegAvailable
  /\ host = NoHost
  /\ wire = <<>>
  /\ sentFrames = <<>>
  /\ roundTrip = NoRoundTrip
  /\ extension = NoExtension
  /\ \E input \in inputs :
       call = [NoCall EXCEPT !.fn = fn, !.pc = "called", !.input = input]

\* the call under way returns output
Returns(fn, output) ==
  /\ call.fn = fn
  /\ call.pc = "called"
  /\ call' = [call EXCEPT !.pc = "returned", !.output = output]
  /\ UNCHANGED <<downloadVars, host, wire, sentFrames, roundTrip, extension>>

\* the concatenation of a list of lists
RECURSIVE Flatten(_)
Flatten(lists) ==
  IF lists = <<>> THEN <<>> ELSE Head(lists) \o Flatten(Tail(lists))

\* the lists of at most n elements of a set
ListsUpTo(set, n) == UNION {[1..k -> set] : k \in 0..n}

\* the URL the playlists are fetched from
PlaylistUrl == <<"h", "t", "t", "p", "s", ":", "/", "/", "c", "d", "n", ".",
                 "e", "x", "a", "m", "p", "l", "e", "/", "v", "/", "m", "a",
                 "s", "t", "e", "r", ".", "m", "3", "u", "8">>

\* the groups of lines the playlists are made of: variants with and without
\* BANDWIDTH, keys of every method, keys with a KEYFORMAT, a segment
PlaylistItems ==
  {<<<<"#", "E", "X", "T", "-", "X", "-", "S", "T", "R", "E", "A", "M", "-",
       "I", "N", "F", ":", "B", "A", "N", "D", "W", "I", "D", "T", "H", "=",
       "8", "0", "0", ",", "R", "E", "S", "O", "L", "U", "T", "I", "O", "N",
       "=", "6", "4", "0", "x", "3", "6", "0">>, <<"l", "o", "w", ".", "m",
       "3", "u", "8">>>>,
   <<<<"#", "E", "X", "T", "-", "X", "-", "S", "T", "R", "E", "A", "M", "-",
       "I", "N", "F", ":", "B", "A", "N", "D", "W", "I", "D", "T", "H", "=",
       "1", "2", "0", "0">>, <<"h", "i", "g", "h", ".", "m", "3", "u",
       "8">>>>,
   <<<<"#", "E", "X", "T", "-", "X", "-", "S", "T", "R", "E", "A", "M", "-",
       "I", "N", "F", ":", "C", "O", "D", "E", "C", "S", "=", "\"", "a",
       "v", "c", "1", ",", "m", "p", "4", "a", "\"">>, <<"a", "n", "y", ".",
       "m", "3", "u", "8">>>>,
   <<<<"#", "E", "X", "T", "-", "X", "-", "K", "E", "Y", ":", "M", "E", "T",
       "H", "O", "D", "=", "N", "O", "N", "E">>>>,
   <<<<"#", "E", "X", "T", "-", "X", "-", "K", "E", "Y", ":", "M", "E", "T",
       "H", "O", "D", "=", "A", "E", "S", "-", "1", "2", "8", ",", "U", "R",
       "I", "=", "\"", "k", ".", "b", "i", "n", "\"">>>>,
   <<<<"#", "E", "X", "T", "-", "X", "-", "K", "E", "Y", ":", "M", "E", "T",
       "H", "O", "D", "=", "S", "A", "M", "P", "L", "E", "-", "A", "E", "S",
       ",", "U", "R", "I", "=", "\"", "s", "k", "d", ":", "/", "/", "k",
       "\"">>>>,
   <<<<"#", "E", "X", "T", "-", "X", "-", "K", "E", "Y", ":", "M", "E", "T",
       "H", "O", "D", "=", "I", "S", "O", "-", "2", "3", "0", "0", "1", "-",
       "7">>>>,
   <<<<"#", "E", "X", "T", "-", "X", "-", "K", "E", "Y", ":", "M", "E", "T",
       "H", "O", "D", "=", "A", "E", "S", "-", "1", "2", "8", ",", "K", "E",
       "Y", "F", "O", "R", "M", "A", "T", "=", "\"", "c", "o", "m", ".",
       "w", "i", "d", "e", "v", "i", "n", "e", "\"">>>>,
   <<<<"#", "E", "X", "T", "I", "N", "F", ":", "4", ",">>, <<" ", "s", ".",
                                                             "t",
                                                             "s">> \o <<"\r">>>>}

\* the manifests: the header and up to MaxPlaylistItems groups in any order
HlsContents ==
  {<<<<"#", "E", "X", "T", "M", "3", "U">>>> \o Flatten(items) :
     items \in ListsUpTo(PlaylistItems, MaxPlaylistItems)}

\* parseHLSManifest(content, url) returns the playlist or throws
ParseHLSManifestReturns ==
  Returns("parseHLSManifest", ParseHLSManifest(call.input, PlaylistUrl))

\* getHLSProtection(playlist) on the playlist that was returned
GetHLSProtectionReturns ==
  /\ call.fn = "parseHLSManifest"
  /\ call.pc = "returned"
  /\ call.output # InvalidManifest
  /\ call' = [call EXCEPT !.pc = "classified",
                          !.output = [playlist |-> call.output,
                                      protection |->
                                        GetHLSProtection(call.output)]]
  /\ UNCHANGED <<downloadVars, host, wire, sentFrames, roundTrip, extension>>

InitHls == InitCall("parseHLSManifest", HlsContents)

NextHls == ParseHLSManifestReturns \/ GetHLSProtectionReturns

SpecHls == InitHls /\ [][NextHls]_vars

(* -------------------------------------------------- DASH manifest parser *)
\* An XML element of the parsed document: its tag, its attributes (a
\* function from names to texts), its child elements in document order and
\* its text content.  An optional value (the result of querySelector, an
\* optional field) is a list of no or one element.
Element(tag, attrs, children) ==
  [tag |-> tag, attrs |-> attrs, children |-> children, text |-> <<>>]

\* element.getAttribute(name), the empty text standing for null
GetAttribute(element, name) ==
  IF name \in DOMAIN element.attrs THEN element.attrs[name] ELSE <<>>

\* element.getAttribute(name) || fallback
AttributeOr(element, name, fallback) ==
  IF GetAttribute(element, name) # <<>> THEN GetAttribute(element, name)
  ELSE fallback

\* element.getAttribute(name) ? parseInt(element.getAttribute(name), 10)
\*                            : undefined
IntAttribute(element, name) ==
  IF GetAttribute(element, name) # <<>>
  THEN ParseInt(GetAttribute(element, name)) ELSE Undefined

\* element.querySelectorAll(tag): the descendants with the tag, in
\* document order
RECURSIVE QuerySelectorAll(_, _)
QuerySelectorAll(element, tag) ==
  Flatten([k \in DOMAIN element.children |->
             (IF element.children[k].tag = tag
              THEN <<element.children[k]>> ELSE <<>>)
               \o QuerySelectorAll(element.children[k], tag)])

\* element.querySelector(tag)
QuerySelector(element, tag) ==
  Slice(QuerySelectorAll(element, tag), 1, 1)

\* element.querySelector(':scope > tag')
ScopeChild(element, tag) ==
  Slice(SelectSeq(element.children, LAMBDA c : c.tag = tag), 1, 1)

\* template.timeline is undefined
NoTimeline == [present |-> FALSE, entries |-> <<>>]

\* parseSegmentTemplate(element | null)
ParseSegmentTemplate(found) ==
  IF found = <<>> THEN <<>>
  ELSE
    LET element == found[1]
        timeline == QuerySelector(element, "SegmentTimeline")
        segments == IF timeline = <<>> THEN <<>>
                    ELSE QuerySelectorAll(timeline[1], "S")
    IN <<[media |-> GetAttribute(element, "media"),
          initialization |-> GetAttribute(element, "initialization"),
          startNumber |->
            ParseInt(AttributeOr(element, "startNumber", <<"1">>)),
          timescale |-> ParseInt(AttributeOr(element, "timescale", <<"1">>)),
          duration |-> IntAttribute(element, "duration"),
          timeline |->
            IF timeline = <<>> THEN NoTimeline
            ELSE [present |-> TRUE,
                  entries |->
                    [k \in DOMAIN segments |->
                       [start |-> IntAttribute(segments[k], "t"),
                        duration |->
                          ParseInt(AttributeOr(segments[k], "d", <<"0">>)),
                        repeat |-> IntAttribute(segments[k], "r")]]]]>>

\* parseSegmentList
ParseSegmentList(element, baseUrl) ==
  LET init == QuerySelector(element, "Initialization")
      withMedia == SelectSeq(QuerySelectorAll(element, "SegmentURL"),
                             LAMBDA s : GetAttribute(s, "media") # <<>>)
  IN [initialization |-> IF init = <<>> THEN <<>>
                         ELSE GetAttribute(init[1], "sourceURL"),
      segments |-> [k \in DOMAIN withMedia |->
                      ResolveUrl(GetAttribute(withMedia[k], "media"),
                                 baseUrl)]]

\* parseRepresentation (of the fields id, bandwidth, height, baseUrl,
\* segmentTemplate and segmentList are kept)
ParseRepresentation(element, baseUrl, parentTemplate) ==
  LET baseUrlEl == QuerySelector(element, "BaseURL")
      own == ParseSegmentTemplate(ScopeChild(element, "SegmentTemplate"))
      segmentList == QuerySelector(element, "SegmentList")
  IN [id |-> GetAttribute(element, "id"),
      bandwidth |-> ParseInt(AttributeOr(element, "bandwidth", <<"0">>)),
      height |-> IntAttribute(element, "height"),
      baseUrl |-> IF baseUrlEl # <<>> /\ baseUrlEl[1].text # <<>>
                  THEN ResolveUrl(baseUrlEl[1].text, baseUrl) ELSE <<>>,
      segmentTemplate |-> IF own # <<>> THEN own ELSE parentTemplate,
      segmentList |-> IF segmentList = <<>> THEN <<>>
                      ELSE <<ParseSegmentList(segmentList[1], baseUrl)>>]

\* the contentType parseAdaptationSet derives
ContentTypeOf(element) ==
  IF \/ Includes(GetAttribute(element, "mimeType"), <<"a", "u", "d", "i",
                                                      "o">>)
     \/ GetAttribute(element, "contentType") = <<"a", "u", "d", "i", "o">>
  THEN "audio"
  ELSE IF \/ Includes(GetAttribute(element, "mimeType"), <<"t", "e", "x",
                                                           "t">>)
          \/ GetAttribute(element, "contentType") = <<"t", "e", "x", "t">>
  THEN "text"
  ELSE "video"

\* parseAdaptationSet sorting every set in descending order
SortRepresentations_AllDescending(contentType, representations) ==
  SortDescending(representations)

\* highest first for video, lowest first for audio (and text)
SortRepresentations(contentType, representations) ==
  IF contentType = "video" THEN SortDescending(representations)
  ELSE SortAscending(representations)

\* parseAdaptationSet
ParseAdaptationSet(element, baseUrl) ==
  LET cpElements == QuerySelectorAll(element, "ContentProtection")
      asSegmentTemplate ==
        ParseSegmentTemplate(ScopeChild(element, "SegmentTemplate"))
      representations == QuerySelectorAll(element, "Representation")
  IN [id |-> GetAttribute(element, "id"),
      mimeType |-> GetAttribute(element, "mimeType"),
      contentType |-> ContentTypeOf(element),
      lang |-> GetAttribute(element, "lang"),
      contentProtection |->
        [k \in DOMAIN cpElements |->
           [schemeIdUri |-> GetAttribute(cpElements[k], "schemeIdUri"),
            value |-> GetAttribute(cpElements[k], "value")]],
      representations |->
        SortRepresentations(
          ContentTypeOf(element),
          [k \in DOMAIN representations |->
             ParseRepresentation(representations[k], baseUrl,
                                 asSegmentTemplate)])]

\* a + b on numbers
JsAdd(a, b) ==
  IF a.t = "number" /\ b.t = "number" THEN Num(a.n + b.n) ELSE NaN

\* String(value) of a number
NumberText(v) == IF v.t = "number" THEN DecimalText(v.n) ELSE <<"N", "a",
                                                                "N">>

\* str.replace(new RegExp(pat, 'g'), rep) for a literal pattern (rep holds
\* no $ sign)
RECURSIVE ReplaceAll(_, _, _)
ReplaceAll(str, pat, rep) ==
  LET at == IndexOf(str, pat, 1)
  IN IF at = 0 THEN str
     ELSE SubSeq(str, 1, at - 1) \o rep
            \o ReplaceAll(SubSeq(str, at + Len(pat), Len(str)), pat, rep)

\* str.replace(/\$key%(\d+)d\$/g, (_, width) =>
\*               String(value).padStart(parseInt(width), '0'))
RECURSIVE ReplacePadded(_, _, _)
ReplacePadded(str, key, text) ==
  LET prefix == <<"$">> \o key \o <<"%">>
      digitsEnd(k) == RunEnd(str, k + Len(prefix), DigitChars)
      starts == {k \in DOMAIN str :
                   /\ Slice(str, k, k + Len(prefix) - 1) = prefix
                   /\ digitsEnd(k) > k + Len(prefix)
                   /\ Slice(str, digitsEnd(k), digitsEnd(k) + 1)
                        = <<"d", "$">>}
      at == CHOOSE k \in starts : \A j \in starts : k <= j
      width == DecimalValue(SubSeq(str, at + Len(prefix), digitsEnd(at) - 1))
  IN IF starts = {} THEN str
     ELSE SubSeq(str, 1, at - 1) \o PadStart(text, width)
            \o ReplacePadded(SubSeq(str, digitsEnd(at) + 2, Len(str)),
                             key, text)

\* replaceVars: the variables are substituted one after the other, each in
\* its plain and then in its padded form
RECURSIVE ReplaceVars(_, _)
ReplaceVars(str, list) ==
  IF list = <<>> THEN str
  ELSE ReplaceVars(
         ReplacePadded(
           ReplaceAll(str, <<"$">> \o Head(list).key \o <<"$">>,
                      Head(list).text),
           Head(list).key, Head(list).text),
         Tail(list))

\* generateSegmentUrls, the loops over template.timeline from the i-th
\* repetition of entry e on
RECURSIVE TimelineUrls(_, _, _, _, _, _)
TimelineUrls(representation, baseUrl, e, i, time, number) ==
  LET template == representation.segmentTemplate[1]
      entries == template.timeline.entries
  IN IF e > Len(entries) THEN <<>>
     ELSE
       LET segment == entries[e]
           repeat == (IF segment.repeat.t = "number" THEN segment.repeat.n
                      ELSE 0) + 1
           now == IF i = 0 /\ segment.start # Undefined THEN segment.start
                  ELSE time
           url == ReplaceVars(
                    template.media,
                    <<[key |-> <<"R", "e", "p", "r", "e", "s", "e", "n",
                                 "t", "a", "t", "i", "o", "n", "I", "D">>,
                       text |-> representation.id],
                      [key |-> <<"N", "u", "m", "b", "e", "r">>,
                                 text |-> NumberText(number)],
                      [key |-> <<"T", "i", "m", "e">>,
                                 text |-> NumberText(now)],
                      [key |-> <<"B", "a", "n", "d", "w", "i", "d", "t",
                                 "h">>,
                       text |-> NumberText(representation.bandwidth)]>>)
       IN IF i >= repeat
          THEN TimelineUrls(representation, baseUrl, e + 1, 0, now, number)
          ELSE <<ResolveUrl(url, IF representation.baseUrl # <<>>
                                 THEN representation.baseUrl ELSE baseUrl)>>
                 \o TimelineUrls(representation, baseUrl, e, i + 1,
                                 JsAdd(now, segment.duration),
                                 JsAdd(number, Num(1)))

\* generateSegmentUrls numbering every segment startNumber
GenerateSegmentUrls_SameNumber(representation, baseUrl) ==
  IF representation.segmentTemplate # <<>>
  THEN IF representation.segmentTemplate[1].timeline.present
       THEN [k \in DOMAIN TimelineUrls(
                            representation, baseUrl, 1, 0, Num(0),
                            representation.segmentTemplate[1].startNumber)
               |-> TimelineUrls(
                     representation, baseUrl, 1, 0, Num(0),
                     representation.segmentTemplate[1].startNumber)[1]]
       ELSE <<>>
  ELSE IF representation.segmentList # <<>>
  THEN representation.segmentList[1].segments
  ELSE <<>>

\* generateSegmentUrls
GenerateSegmentUrls(representation, baseUrl) ==
  IF representation.segmentTemplate # <<>>
  THEN IF representation.segmentTemplate[1].timeline.present
       THEN TimelineUrls(representation, baseUrl, 1, 0, Num(0),
                         representation.segmentTemplate[1].startNumber)
       ELSE <<>>
  ELSE IF representation.segmentList # <<>>
  THEN representation.segmentList[1].segments
  ELSE <<>>

\* str.replace(pat, rep) with a text pattern: the first occurrence only (rep
\* holds no $ sign)
ReplaceFirst(str, pat, rep) ==
  LET at == IndexOf(str, pat, 1)
  IN IF at = 0 THEN str
     ELSE SubSeq(str, 1, at - 1) \o rep
            \o SubSeq(str, at + Len(pat), Len(str))

\* downloadDASH: the init segment it downloads, if any
InitUrlOf(representation) ==
  IF /\ representation.segmentTemplate # <<>>
     /\ representation.segmentTemplate[1].initialization # <<>>
  THEN <<ReplaceFirst(representation.segmentTemplate[1].initialization,
                      <<"$", "R", "e", "p", "r", "e", "s", "e", "n", "t",
                        "a", "t", "i", "o", "n", "I", "D", "$">>,
                        representation.id)>>
  ELSE <<>>

\* segment-${i.toString().padStart(5, '0')}.m4s
SegmentFileName(i) ==
  <<"s", "e", "g", "m", "e", "n", "t", "-">> \o PadStart(DecimalText(i),
    5) \o <<".", "m", "4", "s">>

\* downloadDASH from the check of segmentUrls to the end of the segment
\* loop, when no request fails and the job is not cancelled: the URLs it
\* gets, in order, and the segmentFiles it hands to the merge step
DashDownload(representation, segmentUrls) ==
  IF segmentUrls = <<>>
  THEN [error |-> <<"Could not generate segment URLs">>, requests |-> <<>>,
        segmentFiles |-> <<>>]
  ELSE [error |-> <<>>,
        requests |-> InitUrlOf(representation) \o segmentUrls,
        segmentFiles |->
          (IF InitUrlOf(representation) # <<>> THEN <<<<"i", "n", "i", "t",
                                                        ".", "m", "p", "4">>>>
           ELSE <<>>)
            \o [k \in DOMAIN segmentUrls |-> SegmentFileName(k - 1)]]

(* ------------------------------------------- calls of the DASH functions *)
\* the URL the MPD is fetched from
MpdUrl == <<"h", "t", "t", "p", "s", ":", "/", "/", "c", "d", "n", ".", "e",
            "x", "a", "m", "p", "l", "e", "/", "d", "/", "m", "a", "n", "i",
            "f", "e", "s", "t", ".", "m", "p", "d">>

\* the attributes given by a list of <<name, text>> pairs, those with an
\* empty text being absent
RECURSIVE Attributes(_)
Attributes(pairs) ==
  IF pairs = <<>> THEN <<>>
  ELSE IF Head(pairs)[2] = <<>> THEN Attributes(Tail(pairs))
  ELSE (Head(pairs)[1] :> Head(pairs)[2]) @@ Attributes(Tail(pairs))

\* <Representation id=... bandwidth=...> with the given children
RepresentationElement(id, bandwidth, children) ==
  Element("Representation",
          Attributes(<<<<"id", id>>, <<"bandwidth", bandwidth>>>>), children)

\* the representations of the sets that are sorted: two bandwidths and one
\* representation without the attribute
PlainRepresentations ==
  {RepresentationElement(<<"a">>, <<"5", "0", "0">>, <<>>),
   RepresentationElement(<<"b">>, <<"1", "0", "0", "0">>, <<>>),
   RepresentationElement(<<"c">>, <<>>, <<>>)}

\* <AdaptationSet> elements of video, of audio (by mimeType and by
\* contentType) and without either attribute, with up to MaxRepresentations
\* representations in any order
SortedSetElements ==
  {Element("AdaptationSet", attrs, representations) :
     attrs \in {Attributes(<<<<"mimeType", <<"v", "i", "d", "e", "o", "/",
                                             "m", "p", "4">>>>>>),
                Attributes(<<<<"mimeType", <<"a", "u", "d", "i", "o", "/",
                                             "m", "p", "4">>>>>>),
                Attributes(<<<<"contentType", <<"a", "u", "d", "i",
                                                "o">>>>>>),
                Attributes(<<>>)},
     representations \in ListsUpTo(PlainRepresentations, MaxRepresentations)}

\* the <S> elements of the timelines: with and without t, with and
\* without r
TimelineEntries ==
  {Element("S", Attributes(<<<<"d", <<"1", "0">>>>>>), <<>>),
   Element("S", Attributes(<<<<"d", <<"1", "0">>>>, <<"r", <<"2">>>>>>),
                                                             <<>>),
   Element("S", Attributes(<<<<"t", <<"1", "0", "0">>>>, <<"d",
                                                           <<"5">>>>>>),
                                                           <<>>),
   Element("S", Attributes(<<<<"t", <<"0">>>>, <<"d", <<"5">>>>,
                             <<"r", <<"1">>>>>>), <<>>)}

\* the media attributes of the templates
MediaTemplates ==
  {<<"v", "_", "$", "R", "e", "p", "r", "e", "s", "e", "n", "t", "a", "t",
     "i", "o", "n", "I", "D", "$", "_", "$", "N", "u", "m", "b", "e", "r",
     "%", "0", "5", "d", "$", ".", "m", "4", "s">>, <<"s", "e", "g", "-",
     "$", "T", "i", "m", "e", "$", ".", "m", "4", "s">>,
   <<"$", "B", "a", "n", "d", "w", "i", "d", "t", "h", "$", "/", "$", "N",
     "u", "m", "b", "e", "r", "$", ".", "m", "4", "s">>}

\* <SegmentTemplate media=... startNumber=...> with a <SegmentTimeline> of
\* up to MaxTimelineEntries <S> elements
SegmentTemplateElements ==
  {Element("SegmentTemplate",
           Attributes(<<<<"media", media>>, <<"startNumber", startNumber>>>>),
           <<Element("SegmentTimeline", <<>>, entries)>>) :
     media \in MediaTemplates,
     startNumber \in {<<>>, <<"7">>},
     entries \in ListsUpTo(TimelineEntries, MaxTimelineEntries)}

\* video <AdaptationSet> elements with one representation and a segment
\* template, the template a child of the set or of the representation
TimelineSetElements ==
  {Element("AdaptationSet", Attributes(<<<<"mimeType", <<"v", "i", "d", "e",
                                                         "o", "/", "m", "p",
                                                         "4">>>>>>),
           IF inherited
           THEN <<template, RepresentationElement(<<"v", "1">>, <<"5", "0",
                                                                  "0">>,
                                                                  <<>>)>>
           ELSE <<RepresentationElement(<<"v", "1">>, <<"5", "0", "0">>,
                                                        <<template>>)>>) :
     template \in SegmentTemplateElements, inherited \in BOOLEAN}

\* the <SegmentURL> elements of the segment lists, one without media
SegmentUrlElements ==
  {Element("SegmentURL", Attributes(<<<<"media", <<"s", "1", ".", "m", "4",
                                                   "s">>>>>>), <<>>),
   Element("SegmentURL", Attributes(<<<<"media", <<"s", "2", ".", "m", "4",
                                                   "s">>>>>>), <<>>),
   Element("SegmentURL", Attributes(<<>>), <<>>)}

\* <SegmentList> elements with and without an <Initialization> and with up
\* to MaxSegments <SegmentURL> elements
SegmentListElements ==
  {Element("SegmentList", <<>>, init \o segmentUrls) :
     init \in {<<>>,
               <<Element("Initialization",
                         Attributes(<<<<"sourceURL", <<"l", "i", "s", "t",
                                                       "-", "i", "n", "i",
                                                       "t", ".", "m", "p",
                                                       "4">>>>>>),
                         <<>>)>>},
     segmentUrls \in ListsUpTo(SegmentUrlElements, MaxSegments)}

\* the templates that stand beside a segment list: with a timeline, with
\* and without an initialization attribute, and with a duration only
ListTemplateElements ==
  {Element("SegmentTemplate",
           Attributes(<<<<"media", <<"$", "B", "a", "n", "d", "w", "i", "d",
                                     "t", "h", "$", "/", "$", "N", "u", "m",
                                     "b", "e", "r", "$", ".", "m", "4",
                                     "s">>>>,
                        <<"initialization", initialization>>>>),
           <<Element("SegmentTimeline", <<>>,
                     <<Element("S", Attributes(<<<<"d", <<"1", "0">>>>,
                                                 <<"r", <<"1">>>>>>),
                                                          <<>>)>>)>>) :
     initialization \in {<<>>, <<"i", "n", "i", "t", "-", "$", "R", "e",
                                 "p", "r", "e", "s", "e", "n", "t", "a",
                                 "t", "i", "o", "n", "I", "D", "$", ".",
                                 "m", "p", "4">>}}
    \cup
  {Element("SegmentTemplate",
           Attributes(<<<<"media", <<"$", "B", "a", "n", "d", "w", "i", "d",
                                     "t", "h", "$", "/", "$", "N", "u", "m",
                                     "b", "e", "r", "$", ".", "m", "4",
                                     "s">>>>,
                        <<"initialization", <<"i", "n", "i", "t", "-", "$",
                                              "R", "e", "p", "r", "e", "s",
                                              "e", "n", "t", "a", "t", "i",
                                              "o", "n", "I", "D", "$", ".",
                                              "m", "p", "4">>>>,
                        <<"duration", <<"4">>>>>>), <<>>)}

\* video <AdaptationSet> elements with one representation that has a
\* segment list and no template, a template of its own, or the template of
\* the set
ListSetElements ==
  {Element("AdaptationSet", Attributes(<<<<"mimeType", <<"v", "i", "d", "e",
                                                         "o", "/", "m", "p",
                                                         "4">>>>>>),
           <<RepresentationElement(<<"v", "1">>, <<"5", "0", "0">>,
                                                   <<segmentList>>)>>) :
     segmentList \in SegmentListElements}
    \cup
  {Element("AdaptationSet", Attributes(<<<<"mimeType", <<"v", "i", "d", "e",
                                                         "o", "/", "m", "p",
                                                         "4">>>>>>),
           IF inherited
           THEN <<template,
                  RepresentationElement(<<"v", "1">>, <<"5", "0", "0">>,
                                                        <<segmentList>>)>>
           ELSE <<RepresentationElement(<<"v", "1">>, <<"5", "0", "0">>,
                                        <<template, segmentList>>)>>) :
     segmentList \in SegmentListElements,
     template \in ListTemplateElements,
     inherited \in BOOLEAN}

\* parseAdaptationSet(element, baseUrl) returns
ParseAdaptationSetReturns ==
  Returns("parseAdaptationSet", ParseAdaptationSet(call.input, MpdUrl))

\* generateSegmentUrls(representation, baseUrl) for one of the parsed
\* representations, as downloadDASH calls it
GenerateSegmentUrlsReturns ==
  /\ call.fn = "parseAdaptationSet"
  /\ call.pc = "returned"
  /\ \E k \in DOMAIN call.output.representations :
       call' = [call EXCEPT
                  !.pc = "generated",
                  !.output =
                    [adaptationSet |-> call.output,
                     representation |-> call.output.representations[k],
                     urls |-> GenerateSegmentUrls(
                                call.output.representations[k], MpdUrl)]]
  /\ UNCHANGED <<downloadVars, host, wire, sentFrames, roundTrip, extension>>

\* downloadDASH goes on with the URLs: the init segment, then the loop
DashSegmentsDownloaded ==
  /\ call.fn = "parseAdaptationSet"
  /\ call.pc = "generated"
  /\ call' = [call EXCEPT
                !.pc = "downloaded",
                !.output = [adaptationSet |-> call.output.adaptationSet,
                            representation |-> call.output.representation,
                            urls |-> call.output.urls,
                            download |->
                              DashDownload(call.output.representation,
                                           call.output.urls)]]
  /\ UNCHANGED <<downloadVars, host, wire, sentFrames, roundTrip, extension>>

InitDash ==
  InitCall("parseAdaptationSet",
           SortedSetElements \cup TimelineSetElements \cup ListSetElements)

NextDash ==
  \/ ParseAdaptationSetReturns
  \/ GenerateSegmentUrlsReturns
  \/ DashSegmentsDownloaded

SpecDash == InitDash /\ [][NextDash]_vars

(* ---------------------------------------------------------- quality label *)
\* the truthiness of a number or undefined
Truthy(v) == v.t = "number" /\ v.n # 0

\* getQualityLabel(height?, bitrate?), the same function in the HLS and in
\* the DASH parser
GetQualityLabel(height, bitrate) ==
  IF Truthy(height)
  THEN IF height.n >= 2160 THEN <<"4", "K">>
       ELSE IF height.n >= 1440 THEN <<"1", "4", "4", "0", "p">>
       ELSE IF height.n >= 1080 THEN <<"1", "0", "8", "0", "p">>
       ELSE IF height.n >= 720 THEN <<"7", "2", "0", "p">>
       ELSE IF height.n >= 480 THEN <<"4", "8", "0", "p">>
       ELSE IF height.n >= 360 THEN <<"3", "6", "0", "p">>
       ELSE DecimalText(height.n) \o <<"p">>
  ELSE IF Truthy(bitrate)
  THEN IF bitrate.n >= 8000000 THEN <<"H", "i", "g", "h">>
       ELSE IF bitrate.n >= 4000000 THEN <<"M", "e", "d", "i", "u", "m">>
       ELSE <<"L", "o", "w">>
  ELSE <<"U", "n", "k", "n", "o", "w", "n">>

\* the heights (resolution?.height, r.height) and bitrates (bandwidth) the
\* label is asked for
LabelHeights ==
  {Undefined} \cup
    {Num(h) : h \in {0, 144, 240, 360, 480, 540, 720, 900, 1080, 1440, 2160,
                     4320}}

LabelBitrates ==
  {Undefined} \cup
    {Num(b) : b \in {0, 3999999, 4000000, 7999999, 8000000}}

\* getQualityLabel(height, bitrate) returns
GetQualityLabelReturns ==
  Returns("getQualityLabel",
          GetQualityLabel(call.input.height, call.input.bitrate))

InitLabel == InitCall("getQualityLabel",
                      [height : LabelHeights, bitrate : LabelBitrates])

NextLabel == GetQualityLabelReturns

SpecLabel == InitLabel /\ [][NextLabel]_vars

(* ---------------------------------------------- FFmpegManager.mergeSegments *)
\* array.join(separator) of a list of texts
RECURSIVE Join(_, _)
Join(texts, separator) ==
  IF texts = <<>> THEN <<>>
  ELSE IF Len(texts) = 1 THEN texts[1]
  ELSE texts[1] \o separator \o Join(Tail(texts), separator)

\* the text of the concat list: one line file '<path>' per input file
ConcatContent(inputFiles) ==
  Join([k \in DOMAIN inputFiles |-> <<"f", "i", "l", "e", " ",
                                      "'">> \o inputFiles[k] \o <<"'">>],
       <<"\n">>)

\* concatPath = outputPath + '.txt'
ConcatPath(outputPath) == outputPath \o <<".", "t", "x", "t">>

\* the files no call has written yet, the promise not yet created
NoMerge == [files |-> <<>>, promise |-> "none", stderr |-> <<>>,
            code |-> <<>>]

\* the file system with the file at path removed, as by fs.unlink
Unlink(files, path) == SelectSeq(files, LAMBDA f : f.path # path)

\* what spawn can do (child_process of the Node.js runtime): start the
\* process; fail with an errno that is reported by an 'error' event, which a
\* 'close' event follows; or throw, for any other errno
SpawnOutcomes == {"spawned", "error_event", "throws"}

\* the errno a failed spawn hands to the 'close' listener as exit code (ENOENT)
SpawnErrno == 0 - 2

\* mergeSegments up to its first await: throws without an encoder, otherwise
\* starts writing the concat list
MergeSegmentsBegins ==
  /\ call.fn = "mergeSegments"
  /\ call.pc = "called"
  /\ call' = IF ~ffmpegAvailable
             THEN [call EXCEPT !.pc = "unavailable",
                               !.output = [NoMerge EXCEPT
                                             !.promise = "rejected"]]
             ELSE [call EXCEPT !.pc = "writeFile", !.output = NoMerge]
  /\ UNCHANGED <<downloadVars, host, wire, sentFrames, roundTrip, extension>>

\* fs.writeFile resolved; the promise executor runs and calls spawn
ConcatListWritten(outcome) ==
  /\ call.fn = "mergeSegments"
  /\ call.pc = "writeFile"
  /\ LET written == [call.output EXCEPT
                       !.files = <<[path |-> ConcatPath(call.input.outputPath),
                                    content |->
                                      ConcatContent(call.input.inputFiles)]>>]
     IN call' =
          CASE outcome = "spawned" ->
                 [call EXCEPT !.pc = "running",
                              !.output = [written EXCEPT !.promise = "pending"]]
            [] outcome = "error_event" ->
                 [call EXCEPT !.pc = "spawn_failed",
                              !.output = [written EXCEPT !.promise = "pending"]]
            [] outcome = "throws" ->
                 [call EXCEPT !.pc = "threw",
                              !.output = [written EXCEPT !.promise = "rejected"]]
  /\ UNCHANGED <<downloadVars, host, wire, sentFrames, roundTrip, extension>>

\* proc.stderr.on('data'): stderr += data, kept as the list of the chunks
StderrData(chunk) ==
  /\ call.fn = "mergeSegments"
  /\ call.pc = "running"
  /\ Len(call.output.stderr) < MaxStderrChunks
  /\ call' = [call EXCEPT !.output.stderr = Append(@, chunk)]
  /\ UNCHANGED <<downloadVars, host, wire, sentFrames, roundTrip, extension>>

\* proc.on('error') rejects; the 'close' listener is called in the same turn
\* and starts fs.unlink
SpawnFailureReported ==
  /\ call.fn = "mergeSegments"
  /\ call.pc = "spawn_failed"
  /\ call' = [call EXCEPT !.pc = "unlink",
                          !.output.promise = "rejected",
                          !.output.code = <<SpawnErrno>>]
  /\ UNCHANGED <<downloadVars, host, wire, sentFrames, roundTrip, extension>>

\* proc.on('close'): the encoder ended with the exit code; fs.unlink starts
EncoderCloses(code) ==
  /\ call.fn = "mergeSegments"
  /\ call.pc = "running"
  /\ call' = [call EXCEPT !.pc = "unlink", !.output.code = <<code>>]
  /\ UNCHANGED <<downloadVars, host, wire, sentFrames, roundTrip, extension>>

\* resolve and reject have no effect on a promise that is settled
Settle(promise, state) == IF promise = "pending" THEN state ELSE promise

\* the 'close' listener after its await: the list file is gone, and the
\* promise is resolved for exit code 0 and rejected otherwise
UnlinkDone ==
  /\ call.fn = "mergeSegments"
  /\ call.pc = "unlink"
  /\ call' = [call EXCEPT
                !.pc = "closed",
                !.output.files = Unlink(@, ConcatPath(call.input.outputPath)),
                !.output.promise =
                  Settle(@, IF call.output.code = <<0>> THEN "resolved"
                            ELSE "rejected")]
  /\ UNCHANGED <<downloadVars, host, wire, sentFrames, roundTrip, extension>>

SegmentPaths ==
  {<<"/", "d", "/", ".", "a", "i", "g", "r", "a", "b", "b", "e", "r", "-",
     "1", "/", "i", "n", "i", "t", ".", "m", "p", "4">>, <<"/", "d", "/",
     ".", "a", "i", "g", "r", "a", "b", "b", "e", "r", "-", "1", "/", "s",
     "e", "g", "m", "e", "n", "t", "-", "0", "0", "0", "0", "0", ".", "m",
     "4", "s">>,
   <<"/", "d", "/", ".", "a", "i", "g", "r", "a", "b", "b", "e", "r", "-",
     "1", "/", "s", "e", "g", "m", "e", "n", "t", "-", "0", "0", "0", "0",
     "1", ".", "m", "4", "s">>}

OutputPaths == {<<"/", "d", "/", "v", "i", "d", "e", "o", ".", "m", "p",
                  "4">>, <<"/", "d", "/", "a", " ", "b", ".", "m", "p", "4">>}

ExitCodes == {0, 1, 255}

StderrChunks == {<<"f", "r", "a", "m", "e", "=", " ", "1">>, <<"I", "n",
                                                               "v", "a",
                                                               "l", "i",
                                                               "d", " ",
                                                               "d", "a",
                                                               "t", "a">>}

InitMerge ==
  /\ InitWith(1..MaxPipelineJobs, {DefaultMaxConcurrent})
  /\ host = NoHost
  /\ wire = <<>>
  /\ sentFrames = <<>>
  /\ roundTrip = NoRoundTrip
  /\ extension = NoExtension
  /\ \E inputFiles \in ListsUpTo(SegmentPaths, MaxSegments),
        outputPath \in OutputPaths :
       call = [NoCall EXCEPT !.fn = "mergeSegments", !.pc = "called",
                             !.input = [inputFiles |-> inputFiles,
                                        outputPath |-> outputPath]]

NextMerge ==
  \/ MergeSegmentsBegins
  \/ \E outcome \in SpawnOutcomes : ConcatListWritten(outcome)
  \/ \E chunk \in StderrChunks : StderrData(chunk)
  \/ SpawnFailureReported
  \/ \E code \in ExitCodes : EncoderCloses(code)
  \/ UnlinkDone

SpecMerge == InitMerge /\ [][NextMerge]_vars

(* ------------------------------------------ StreamDetector.fetchManifest *)
\* `if (this.manifestCache.size > 100)`
ManifestCacheLimit == 100

\* manifest URLs are numbered; the text the server returns for a URL
ManifestUrls == 1..MaxManifestUrls

ContentOf(url) == <<"#EXTM3U", url>>

\* the keys of the Map in insertion order
CacheKeys(cache) == [k \in DOMAIN cache |-> cache[k].url]

\* Map.has
CacheHas(cache, url) == \E k \in DOMAIN cache : cache[k].url = url

\* Map.set: a new key is appended, the value of a present key is replaced
\* where it stands
CacheSet(cache, url, content) ==
  IF CacheHas(cache, url)
  THEN [k \in DOMAIN cache |->
          IF cache[k].url = url THEN [url |-> url, content |-> content]
          ELSE cache[k]]
  ELSE Append(cache, [url |-> url, content |-> content])

\* "Limit cache size": beyond the limit the first key of the Map is deleted
LimitCacheSize(cache) ==
  IF Len(cache) > ManifestCacheLimit THEN Tail(cache) ELSE cache

\* url becomes the most recently used one
Touch(recent, url) == Append(SelectSeq(recent, LAMBDA u : u # url), url)

\* the list without its k-th element
RemoveAt(list, k) == SubSeq(list, 1, k - 1) \o SubSeq(list, k + 1, Len(list))

\* the URLs the pages make the detector fetch: the first manifest again and
\* again, and, one after the other, the manifests not fetched before
RequestedUrls ==
  LET fresh == ManifestUrls \ {extension.recent[k] :
                                k \in DOMAIN extension.recent}
  IN {1} \cup {u \in fresh : /\ \A v \in fresh : u <= v
                            /\ \A k \in DOMAIN extension.fetches :
                                 extension.fetches[k] = 1}

\* fetchManifest(url) up to its first await: a hit returns the cached
\* content, a miss starts the request
FetchManifestCalled(url) ==
  /\ extension' =
       IF CacheHas(extension.manifestCache, url)
       THEN [extension EXCEPT !.recent = Touch(@, url)]
       ELSE [extension EXCEPT !.fetches = Append(@, url)]
  /\ CacheHas(extension.manifestCache, url)
       \/ Len(extension.fetches) < MaxManifestFetches
  /\ UNCHANGED <<downloadVars, host, wire, sentFrames, roundTrip, call>>

\* fetch rejects or the response is not ok: fetchManifest throws
ManifestFetchFails(k) ==
  /\ k \in DOMAIN extension.fetches
  /\ extension' = [extension EXCEPT !.fetches = RemoveAt(@, k)]
  /\ UNCHANGED <<downloadVars, host, wire, sentFrames, roundTrip, call>>

\* response.text() resolved: the content is cached and the size limited
ManifestFetched(k) ==
  /\ k \in DOMAIN extension.fetches
  /\ LET url == extension.fetches[k]
     IN extension' =
          [extension EXCEPT
             !.manifestCache = LimitCacheSize(CacheSet(@, url, ContentOf(url))),
             !.recent = Touch(@, url),
             !.fetches = RemoveAt(@, k)]
  /\ UNCHANGED <<downloadVars, host, wire, sentFrames, roundTrip, call>>

InitCache ==
  /\ InitWith(1..MaxPipelineJobs, {DefaultMaxConcurrent})
  /\ ffmpegAvailable
  /\ HostIdle

NextCache ==
  \/ \E url \in RequestedUrls : FetchManifestCalled(url)
  \/ \E k \in 1..MaxManifestFetches : ManifestFetchFails(k)
  \/ \E k \in 1..MaxManifestFetches : ManifestFetched(k)

SpecCache == InitCache /\ [][NextCache]_vars

(* ------------------------------------------- Downloader: the output file *)
\* the characters removed by /[<>:"/\\|?*]/g
ForbiddenFilenameChars == {"<", ">", ":", "\"", "/", "\\", "|", "?", "*"}

\* str.replace(/\s+/g, ' '): every run of whitespace becomes one space
RECURSIVE CollapseWhitespace(_)
CollapseWhitespace(str) ==
  IF str = <<>> THEN <<>>
  ELSE IF str[1] \in WhitespaceChars
       THEN <<" ">> \o CollapseWhitespace(
                         Slice(str, RunEnd(str, 1, WhitespaceChars), Len(str)))
       ELSE <<str[1]>> \o CollapseWhitespace(Tail(str))

\* Downloader.sanitizeFilename
SanitizeFilename(name) ==
  Slice(Trim(CollapseWhitespace(
               SelectSeq(name, LAMBDA c : c \notin ForbiddenFilenameChars))),
        1, 200)

\* options.downloadPath
DownloadPath == <<"/", "d">>

\* outputPath of downloadHLS, downloadDASH and downloadDirect: path.join of
\* the download directory and sanitizeFilename(pageTitle || 'video') + '.mp4'
OutputPath(stream) ==
  DownloadPath \o <<"/">>
    \o SanitizeFilename(IF stream.pageTitle = <<>> THEN <<"v", "i", "d",
                                                          "e", "o">>
                        ELSE stream.pageTitle)
    \o <<".", "m", "p", "4">>

\* the file the task of job id has open for writing: the write stream of
\* downloadDirect, the output of the encoder, the fallback concatenation
WritesTo(id) ==
  IF id \notin DOMAIN jobs THEN {}
  ELSE CASE task[id].pc \in {"direct", "merge"} ->
              {OutputPath(jobs[id].stream)}
         [] task[id].pc = "concat" /\ jobs[id].stream.type # "hls" ->
              {OutputPath(jobs[id].stream)}
         [] task[id].pc = "concat" ->
              {ReplaceFirst(OutputPath(jobs[id].stream), <<".", "m", "p",
                                                           "4">>, <<".",
                                                           "t", "s">>)}
         [] OTHER -> {}

\* page titles: none, and two that differ in a removed character only
PageTitles == {<<>>, <<"a">>, <<"a", ":">>}

TitledStreams ==
  {[type |-> type, protection |-> "none", pageTitle |-> title] :
     type \in {"hls", "direct"}, title \in PageTitles}

NextTitled ==
  \/ \E stream \in TitledStreams : DownloadRequest(stream)
  \/ \E id \in Ids : ManifestResponse(id, FALSE)
  \/ \E id \in Ids : PlaylistResponse(id, 0, FALSE)
  \/ \E id \in Ids : MkdirDone(id)
  \/ \E id \in Ids : MergeDone(id)
  \/ \E id \in Ids : ConcatDone(id)
  \/ \E id \in Ids : RmDone(id)
  \/ \E id \in Ids : DirectFinish(id)

SpecTitled == InitSched /\ [][NextTitled]_vars

(* ------------------------------------------- NativeMessaging (extension) *)
\* NativeMessaging.maxReconnectAttempts
MaxReconnectAttempts == 3

\* this.port = null
NoPort == 0

\* a port as browser.runtime.connectNative returns it: open, the PING of
\* connect() posted on it and not answered; early is set when the host end
\* closes it while the connect() that created it still waits
NewPort == [open |-> TRUE, ping |-> TRUE, answered |-> FALSE, early |-> FALSE]

\* the timers that wait for the connect() that created port p
WaitsFor(c, p) ==
  {k \in DOMAIN c.timers :
     c.timers[k].kind = "connect_wait" /\ c.timers[k].port = p}

\* NativeMessaging.send
Send(c) ==
  IF c.port = NoPort \/ ~c.connected
  THEN [c EXCEPT !.lastSend = "not_connected"]
  ELSE [c EXCEPT !.lastSend = "sent"]

\* NativeMessaging.connect up to its await: origin names the caller, throws
\* says whether connectNative throws
Connect(c, origin, throws) ==
  IF c.connected /\ c.port # NoPort THEN c
  ELSE IF throws
  THEN [c EXCEPT !.connected = FALSE, !.port = NoPort,
                 !.lastSend = IF origin = "download" THEN "error" ELSE @]
  ELSE LET p == Len(c.ports) + 1
       IN [c EXCEPT !.ports = Append(@, NewPort),
                    !.port = p,
                    !.timers = Append(@, [kind |-> "connect_wait",
                                          origin |-> origin, port |-> p])]

\* NativeMessaging.connect after its await; a caller that awaited it in
\* handleDownloadRequest forwards the request
ConnectResumed(c, k) ==
  LET c1 == [c EXCEPT !.connected = TRUE,
                      !.reconnectAttempts = 0,
                      !.timers = RemoveAt(@, k)]
  IN IF c.timers[k].origin = "download" THEN Send(c1) ELSE c1

\* NativeMessaging.handleDisconnect, the onDisconnect listener of port p
HandleDisconnect(c, p) ==
  LET c1 == [c EXCEPT !.ports[p].open = FALSE,
                      !.ports[p].early = WaitsFor(c, p) # {},
                      !.connected = FALSE,
                      !.port = NoPort]
  IN IF c.reconnectAttempts < MaxReconnectAttempts
     THEN [c1 EXCEPT !.reconnectAttempts = @ + 1,
                     !.timers = Append(@, [kind |-> "reconnect",
                                           origin |-> "timer",
                                           port |-> NoPort]),
                     !.scheduled = @ + 1]
     ELSE c1

\* NativeMessaging.disconnect
Disconnect(c) ==
  [(IF c.port # NoPort
    THEN [c EXCEPT !.ports[c.port].open = FALSE, !.port = NoPort]
    ELSE c)
   EXCEPT !.connected = FALSE, !.disconnectCalls = @ + 1]

\* NativeMessaging.handleMessage, case 'PONG', on port p
HandleMessage(c, p) ==
  [c EXCEPT !.ports[p].ping = FALSE,
            !.ports[p].answered = TRUE,
            !.connected = TRUE]

\* the timers fire in the order of their deadlines: a 100 ms wait of
\* connect() before every timer set after it, a 5 s reconnect timer before
\* the reconnect timers set after it and after the waits set before it
MayFire(c, k) ==
  \A j \in 1..(k - 1) :
    /\ c.timers[j].kind # "connect_wait"
    /\ c.timers[j].kind # c.timers[k].kind

MayConnect(c) == Len(c.ports) < MaxPorts

\* init() of the background page: await nativeMessaging.connect(); it runs
\* when the page is loaded, before any listener is called
InitCalled(throws) ==
  /\ ~extension.initCalled
  /\ extension' = Connect([extension EXCEPT !.initCalled = TRUE], "init", throws)
  /\ UNCHANGED <<downloadVars, host, wire, sentFrames, roundTrip, call>>

\* handleDownloadRequest of the background page
DownloadRequested(throws) ==
  /\ extension.initCalled
  /\ extension.downloadRequests < MaxDownloadRequests
  /\ MayConnect(extension)
  /\ LET c == [extension EXCEPT !.downloadRequests = @ + 1]
     IN extension' = IF ~c.connected THEN Connect(c, "download", throws)
                      ELSE Send(c)
  /\ UNCHANGED <<downloadVars, host, wire, sentFrames, roundTrip, call>>

\* the 100 ms timer of a connect() fires
ConnectWaitOver(k) ==
  /\ k \in DOMAIN extension.timers
  /\ extension.timers[k].kind = "connect_wait"
  /\ MayFire(extension, k)
  /\ extension' = ConnectResumed(extension, k)
  /\ UNCHANGED <<downloadVars, host, wire, sentFrames, roundTrip, call>>

\* the 5 s timer of handleDisconnect fires: this.connect()
ReconnectTimerFires(k, throws) ==
  /\ k \in DOMAIN extension.timers
  /\ extension.timers[k].kind = "reconnect"
  /\ MayFire(extension, k)
  /\ MayConnect(extension)
  /\ extension' = Connect([extension EXCEPT !.timers = RemoveAt(@, k)],
                          "timer", throws)
  /\ UNCHANGED <<downloadVars, host, wire, sentFrames, roundTrip, call>>

\* the host end of port p goes away (host not installed, host exits)
PortDisconnected(p) ==
  /\ p \in DOMAIN extension.ports
  /\ extension.ports[p].open
  /\ extension' = HandleDisconnect(extension, p)
  /\ UNCHANGED <<downloadVars, host, wire, sentFrames, roundTrip, call>>

\* the host answers the PING posted on port p
PongReceived(p) ==
  /\ p \in DOMAIN extension.ports
  /\ extension.ports[p].open /\ extension.ports[p].ping
  /\ extension' = HandleMessage(extension, p)
  /\ UNCHANGED <<downloadVars, host, wire, sentFrames, roundTrip, call>>

\* nativeMessaging.disconnect() is called
DisconnectCalled ==
  /\ extension.initCalled
  /\ extension.disconnectCalls < MaxDisconnectCalls
  /\ extension' = Disconnect(extension)
  /\ UNCHANGED <<downloadVars, host, wire, sentFrames, roundTrip, call>>

InitClient == InitCache

NextClient ==
  \/ \E throws \in BOOLEAN : InitCalled(throws)
  \/ \E throws \in BOOLEAN : DownloadRequested(throws)
  \/ \E k \in 1..(MaxPorts + MaxReconnectAttempts) : ConnectWaitOver(k)
  \/ \E k \in 1..(MaxPorts + MaxReconnectAttempts), throws \in BOOLEAN :
       ReconnectTimerFires(k, throws)
  \/ \E p \in 1..MaxPorts : PortDisconnected(p)
  \/ \E p \in 1..MaxPorts : PongReceived(p)
  \/ DisconnectCalled

SpecClient == InitClient /\ [][NextClient]_vars

(* --------------------------------------------- tabStreams (background page) *)
\* tabStreams is a Map from tab ids to arrays; an array is named by its
\* position in arrays, because addStreamToTab keeps a reference to it
\* across its awaits
StreamUrls == {"u1", "u2"}

MapDelete(map, key) == [k \in DOMAIN map \ {key} |-> map[k]]

\* streams.some(s => s.url === partialStream.url)
Exists(streams, url) == \E k \in DOMAIN streams : streams[k].url = url

\* addStreamToTab up to its first await
AddStreamToTab(e, tabId, url) ==
  LET e1 == IF tabId \notin DOMAIN e.tabStreams
            THEN [e EXCEPT !.arrays = Append(@, <<>>),
                           !.tabStreams = @ @@ (tabId :> Len(e.arrays) + 1)]
            ELSE e
      streams == e1.tabStreams[tabId]
  IN IF Exists(e1.arrays[streams], url) THEN e1
     ELSE [e1 EXCEPT !.adding = Append(@, [tabId |-> tabId, url |-> url,
                                           streams |-> streams,
                                           pc |-> "tabs_get"])]

\* addStreamToTab after detector.enrichStream: streams.push(fullStream)
PushStream(e, k) ==
  [e EXCEPT !.arrays[e.adding[k].streams] = Append(@, [url |-> e.adding[k].url]),
            !.adding = RemoveAt(@, k)]

\* handleRequest for a request that detectFromUrl takes for a stream
HandleRequest(tabId, url) ==
  /\ extension.observed < MaxObserved
  /\ extension' = AddStreamToTab([extension EXCEPT !.observed = @ + 1],
                                 tabId, url)
  /\ UNCHANGED <<downloadVars, host, wire, sentFrames, roundTrip, call>>

\* browser.tabs.get settled (the tab or an error): enrichStream is called
TabsGetSettled(k) ==
  /\ k \in DOMAIN extension.adding
  /\ extension.adding[k].pc = "tabs_get"
  /\ extension' = [extension EXCEPT !.adding[k].pc = "enrich"]
  /\ UNCHANGED <<downloadVars, host, wire, sentFrames, roundTrip, call>>

\* detector.enrichStream resolved with the full stream
EnrichSettled(k) ==
  /\ k \in DOMAIN extension.adding
  /\ extension.adding[k].pc = "enrich"
  /\ extension' = PushStream(extension, k)
  /\ UNCHANGED <<downloadVars, host, wire, sentFrames, roundTrip, call>>

\* handleTabUpdate with changeInfo.status = 'loading'
HandleTabUpdate(tabId) ==
  /\ extension.navigations < MaxNavigations
  /\ extension' = [extension EXCEPT !.tabStreams = MapDelete(@, tabId),
                                    !.navigations = @ + 1]
  /\ UNCHANGED <<downloadVars, host, wire, sentFrames, roundTrip, call>>

\* handleTabRemove
HandleTabRemove(tabId) ==
  /\ extension.navigations < MaxNavigations
  /\ extension' = [extension EXCEPT !.tabStreams = MapDelete(@, tabId),
                                    !.navigations = @ + 1]
  /\ UNCHANGED <<downloadVars, host, wire, sentFrames, roundTrip, call>>

InitTabs == InitCache

NextTabs ==
  \/ \E tabId \in 1..MaxTabs, url \in StreamUrls : HandleRequest(tabId, url)
  \/ \E k \in 1..MaxObserved : TabsGetSettled(k)
  \/ \E k \in 1..MaxObserved : EnrichSettled(k)
  \/ \E tabId \in 1..MaxTabs : HandleTabUpdate(tabId)
  \/ \E tabId \in 1..MaxTabs : HandleTabRemove(tabId)

SpecTabs == InitTabs /\ [][NextTabs]_vars

(* ================================================================ claims *)
JobIds == DOMAIN jobs

Range(q) == {q[k] : k \in DOMAIN q}

Running(id) == task[id].pc \in AwaitPcs

\* C1: the number of jobs whose status is downloading or merging never
\* exceeds maxConcurrent.
C1_ConcurrencyLimit ==
  Cardinality({id \in JobIds : jobs[id].status \in ActiveStatuses})
    <= maxConcurrent

\* the limit is reached while a job waits in the queue
C1_Witness ==
  /\ Cardinality({id \in JobIds : jobs[id].status \in ActiveStatuses})
       = maxConcurrent
  /\ \E id \in JobIds : jobs[id].status = "merging"
  /\ Len(queue) > 0

\* C2: a job for a stream whose protection is 'drm' is failed with an error
\* message and no HTTP request is ever issued for it.
C2_DrmRefused ==
  \A id \in JobIds :
    jobs[id].stream.protection = "drm" =>
      /\ jobs[id].status = "failed"
      /\ jobs[id].error # ""
      /\ task[id].io = <<>>

\* C3: in an HLS or DASH job whose parsed manifest has isDRM = true, no
\* segment or initialization segment is fetched.
C3_NoSegmentFetchWhenDrm ==
  \A id \in JobIds :
    task[id].isDRM =>
      \A k \in DOMAIN task[id].io :
        ~(task[id].io[k].op = "get"
          /\ task[id].io[k].kind \in {"segment", "init"})

\* the status changes the data model allows, and their compositions (a
\* handler may take several of them in one step)
StatusEdges ==
  {<<"pending", "downloading">>, <<"downloading", "merging">>,
   <<"downloading", "completed">>, <<"merging", "completed">>,
   <<"pending", "cancelled">>, <<"downloading", "cancelled">>,
   <<"pending", "failed">>, <<"downloading", "failed">>,
   <<"merging", "failed">>}

StatusPaths ==
  StatusEdges \cup
  {<<"pending", "merging">>, <<"pending", "completed">>}

\* C4: every change of a job's status follows the edges pending ->
\* downloading -> (merging) -> completed, pending/downloading -> cancelled,
\* non-terminal -> failed; a terminal status never changes.
C4_StatusDag ==
  [][\A id \in JobIds :
       jobs'[id].status # jobs[id].status =>
         <<jobs[id].status, jobs'[id].status>> \in StatusPaths]_vars

NewEvents(id) == SubSeq(events'[id], Len(events[id]) + 1, Len(events'[id]))

\* C5: once cancelDownload(id) was called for a pending, downloading or
\* merging job, neither the complete sink nor the error sink is invoked for id.
C5_NoCompleteOrErrorAfterCancel ==
  [][\A id \in cancelRequested :
       \A k \in DOMAIN NewEvents(id) :
         NewEvents(id)[k].kind \notin {"complete", "error"}]_vars

\* C6: a cancelled job whose task has ended (or never started) has been
\* reported by a progress event carrying status cancelled.
C6_CancelledProgressEmitted ==
  \A id \in JobIds :
    (jobs[id].status = "cancelled" /\ ~Running(id)) =>
      \E k \in DOMAIN events[id] :
        events[id][k].kind = "progress" /\ events[id][k].status = "cancelled"

\* C7: after a complete or error event of a job no further event with that
\* job id is emitted.
C7_NoEventAfterTerminalEvent ==
  \A id \in JobIds :
    \A k \in DOMAIN events[id] :
      events[id][k].kind \in {"complete", "error"} => k = Len(events[id])

\* C8: cancelDownload is idempotent: in every reachable state and for every
\* job id, calling it twice yields the state and events of calling it once.
C8_CancelIdempotent ==
  \A id \in Ids :
    CancelDownloadOp(CancelDownloadOp(S, id), id) = CancelDownloadOp(S, id)

\* a running job was cancelled (its abort not yet observed) while another job
\* waits in the queue, and a further cancel would still find a known job
C8_Witness ==
  /\ \E id \in cancelRequested :
       /\ jobs[id].status = "cancelled"
       /\ task[id].aborted
       /\ CancelDownloadOp(S, id) = S
  /\ \E id \in Range(queue) : CancelDownloadOp(S, id) # S

\* C9: a job cancelled while pending is out of the queue and cancelled, and
\* never starts a task, holds a slot or issues a request.
C9_PendingCancelIsFinal ==
  \A id \in cancelledPending :
    /\ jobs[id].status = "cancelled"
    /\ id \notin Range(queue)
    /\ id \notin abortControllers
    /\ task[id].pc = "none"
    /\ task[id].io = <<>>

\* a pending job was cancelled and the slot it waited for was released later
C9_Witness ==
  \E id \in cancelledPending :
    /\ activeDownloads = 0
    /\ \E other \in JobIds \ {id} : task[other].pc = "done"

SegmentIo(id) == SelectSeq(task[id].io, LAMBDA e : e.kind = "segment")

InitFiles(id) ==
  SelectSeq(task[id].io, LAMBDA e : e.kind = "init" /\ e.op = "write")

\* C10: segment i+1 is requested only after segment i was fetched and
\* written, and the file list is in manifest order (init.mp4 first).
C10_SegmentsInOrder ==
  \A id \in JobIds :
    jobs[id].stream.type \in {"hls", "dash"} =>
    /\ \A k \in DOMAIN SegmentIo(id) :
         SegmentIo(id)[k] =
           [op |-> IF k % 2 = 1 THEN "get" ELSE "write",
            kind |-> "segment", index |-> (k - 1) \div 2]
    /\ task[id].segmentFiles =
         [k \in 1..Len(InitFiles(id)) |-> InitFile]
           \o [k \in 1..task[id].i |-> k - 1]

\* a DASH job with an init segment hands two segments to the merge step
C10_Witness ==
  \E id \in JobIds :
    /\ task[id].pc \in {"merge", "concat"}
    /\ task[id].hasInit
    /\ Len(task[id].segmentFiles) >= 3

\* C12: once the task of a cancelled HLS or DASH job has ended, the job's
\* scratch directory no longer exists.
C12_ScratchRemovedOnCancel ==
  \A id \in cancelRequested :
    (/\ jobs[id].stream.type \in {"hls", "dash"}
     /\ jobs[id].status = "cancelled"
     /\ task[id].pc = "done") => id \notin scratch

\* C13: a completed HLS or DASH job has no scratch directory left, with the
\* encoder and with the raw-concatenation fallback alike.
C13_ScratchRemovedOnCompletion ==
  \A id \in JobIds :
    (jobs[id].stream.type \in {"hls", "dash"} /\ jobs[id].status = "completed")
      => id \notin scratch

\* the step fails or cancels job a: a running (or newly requested) job
\* becomes failed or cancelled or its cancelled task ends, or a waiting job
\* is cancelled
FailsOrCancels(a) ==
  /\ jobs'[a].status \in {"failed", "cancelled"}
  /\ \/ a \notin JobIds
     \/ jobs'[a].status # jobs[a].status
     \/ task[a].pc \in AwaitPcs /\ task'[a].pc = "done"
  /\ a \in Range(queue) => jobs'[a].status = "cancelled"

\* the released slot started the waiting job j: it is downloading, or has
\* failed at once on its own unsupported stream type
StartedFromQueue(j) ==
  /\ j \in Range(queue)
  /\ jobs'[j] \in {[jobs[j] EXCEPT !.status = "downloading"],
                   [jobs[j] EXCEPT !.status = "failed",
                                   !.error = "Unsupported stream type"]}

\* C15 as stated: a failure or cancellation of one job leaves the status,
\* progress, error and outputPath of every other job unchanged.
C15_OtherJobsUnchanged ==
  [][\A a \in DOMAIN jobs' :
       FailsOrCancels(a) => \A j \in JobIds \ {a} : jobs'[j] = jobs[j]]_vars

\* C15 amended: a failure or cancellation of one job leaves the status,
\* progress, error and outputPath of every other job unchanged, except that
\* a job waiting in the queue may be started in the slot that was released.
C15_OtherJobsUnchangedOrStarted ==
  [][\A a \in DOMAIN jobs' :
       FailsOrCancels(a) =>
         \A j \in JobIds \ {a} : jobs'[j] = jobs[j] \/ StartedFromQueue(j)]_vars

\* one job has failed while another one, past its first segment, runs on
C15_Witness ==
  \E a \in JobIds, j \in JobIds :
    /\ a # j
    /\ jobs[a].status = "failed" /\ task[a].pc = "done"
    /\ jobs[j].status \in ActiveStatuses
    /\ jobs[j].progress.currentSegment > 0

\* the step ends job id with the transport error of a segment GET
SegmentGetGivesUp(id) ==
  /\ task[id].pc = "seg_fetch"
  /\ task'[id].pc = "done"
  /\ jobs'[id].error = "transport error"

\* C14: a segment GET that fails with a transport error is sent again, at
\* most 3 attempts in total per segment; when the third attempt fails the
\* job becomes failed, an error event is emitted and the task has ended, so
\* that no later segment is fetched.
C14_SegmentRetry ==
  /\ [](\A id \in JobIds : task[id].attempt + 1 <= 3)
  /\ [][\A id \in JobIds :
          SegmentGetGivesUp(id) =>
            /\ task[id].attempt + 1 = 3
            /\ jobs'[id].status = "failed"
            /\ events'[id] = Append(events[id], events'[id][Len(events'[id])])
            /\ events'[id][Len(events'[id])].kind = "error"
            /\ task'[id].io = <<>>]_vars

\* a job failed on a transport error after its first segment was written
C14_Witness ==
  \E id \in JobIds :
    /\ jobs[id].status = "failed"
    /\ jobs[id].error = "transport error"
    /\ jobs[id].progress.currentSegment > 0
    /\ task[id].pc = "done"

ProgressEvents(id) == SelectSeq(events[id], LAMBDA e : e.kind = "progress")

\* C11: the progress events emitted for a job are non-decreasing in
\* downloadedBytes and in percentage.
C11_ProgressMonotone ==
  \A id \in DOMAIN events :
    \A k \in 1..(Len(ProgressEvents(id)) - 1) :
      /\ ProgressEvents(id)[k].progress.downloadedBytes
           <= ProgressEvents(id)[k + 1].progress.downloadedBytes
      /\ ProgressEvents(id)[k].progress.percentage
           <= ProgressEvents(id)[k + 1].progress.percentage

\* the number of bytes of n frames with these bodies
RECURSIVE FramesLength(_)
FramesLength(frames) ==
  IF frames = <<>> THEN 0
  ELSE 4 + BufferLength(Head(frames)) + FramesLength(Tail(frames))

\* the bytes stdin has delivered to handleData so far
Delivered == FramesLength(sentFrames) - BufferLength(wire)

\* the frames that lie entirely within the first `budget` bytes
RECURSIVE CompleteFrames(_, _)
CompleteFrames(frames, budget) ==
  IF frames = <<>> \/ 4 + BufferLength(Head(frames)) > budget THEN <<>>
  ELSE <<Head(frames)>>
         \o CompleteFrames(Tail(frames), budget - 4 - BufferLength(Head(frames)))

DeliveredFrames == CompleteFrames(sentFrames, Delivered)

IsJson(body) == ParseBody(body) # SyntaxError

\* the parsed bodies of the frames that hold valid JSON, in order
RECURSIVE Messages(_)
Messages(frames) ==
  IF frames = <<>> THEN <<>>
  ELSE (IF IsJson(Head(frames)) THEN <<ParseBody(Head(frames))>> ELSE <<>>)
         \o Messages(Tail(frames))

\* C16: whatever the chunk boundaries, the handler has been invoked once
\* per delivered frame that holds valid JSON, in stream order, with the
\* parsed body.
C16_ChunkingIndependent == host.received = Messages(DeliveredFrames)

\* a frame was handed over and the last chunk ended inside the next header
C16_Witness ==
  /\ Len(host.received) >= 1
  /\ BufferLength(host.buffer) \in 1..3

\* the bytes of the frames written after the delivered ones
RECURSIVE WireOf(_)
WireOf(frames) ==
  IF frames = <<>> THEN <<>>
  ELSE BufferConcat(WireFrame(Head(frames)), WireOf(Tail(frames)))

\* C17: a frame whose body is not valid JSON is not handed to the handler,
\* exactly its 4 + L bytes are consumed, and every well-formed frame that
\* follows it is delivered.
C17_BadFrameSkipped ==
  (\E k \in DOMAIN DeliveredFrames : ~IsJson(DeliveredFrames[k])) =>
    /\ BufferConcat(host.buffer, wire)
         = WireOf(SubSeq(sentFrames, Len(DeliveredFrames) + 1, Len(sentFrames)))
    /\ Len(host.received)
         = Cardinality({k \in DOMAIN DeliveredFrames : IsJson(DeliveredFrames[k])})
    /\ \A k \in DOMAIN DeliveredFrames :
         IsJson(DeliveredFrames[k]) =>
           host.received[Len(Messages(SubSeq(DeliveredFrames, 1, k)))]
             = ParseBody(DeliveredFrames[k])

\* a cut-off body came first and the PING after it reached the handler
C17_Witness ==
  /\ Len(DeliveredFrames) = 2
  /\ DeliveredFrames[1] = BrokenBody
  /\ DeliveredFrames[2] = PingBody
  /\ Len(host.received) = 1

\* C18: a frame whose declared length exceeds 1 MiB is never handed to the
\* handler, and the frames after it are still decoded.
C18_OversizedDropped ==
  host.received
    = Messages(SelectSeq(DeliveredFrames,
                         LAMBDA body : BufferLength(body) <= OneMiB))

\* the bytes are a concatenation of complete frames with JSON bodies
RECURSIVE IsFrames(_)
IsFrames(buf) ==
  \/ buf = <<>>
  \/ /\ BufferLength(buf) >= 4
     /\ BufferLength(buf) >= 4 + ReadUInt32LE(buf)
     /\ IsJson(BufferTake(BufferDrop(buf, 4), ReadUInt32LE(buf)))
     /\ IsFrames(BufferDrop(buf, 4 + ReadUInt32LE(buf)))

\* C19: the bytes written to process.stdout are at all times a
\* concatenation of complete frames (4-byte little-endian length, then that
\* many bytes of JSON); nothing else is written between or inside frames.
C19_StdoutOnlyFrames == IsFrames(host.stdout)

\* C20: a DownloadProgress value the download functions can produce, sent
\* with sendMessage and decoded with handleData, comes back equal to the
\* original.
C20_ProgressRoundTrip ==
  roundTrip.pc = "received" => roundTrip.decoded = <<roundTrip.message>>

\* C21: when a DOWNLOAD_CANCEL arrives with the job id that was reported
\* to the extension for a running yt-dlp job, SIGTERM has been sent to the
\* helper process of that job.
C21_YtdlpCancelSendsSigterm ==
  \A id \in cancelRequested :
    ytdlp[id].pc # "none" => "SIGTERM" \in Range(ytdlp[id].signals)

\* the playlist a call of parseHLSManifest returned
ReturnedPlaylist ==
  IF call.pc = "classified" THEN call.output.playlist ELSE call.output

HlsReturned ==
  /\ call.fn = "parseHLSManifest"
  /\ call.pc \in {"returned", "classified"}
  /\ call.output # InvalidManifest

\* the #EXT-X-KEY lines of a manifest
KeyLines(content) ==
  SelectSeq(content, LAMBDA line : StartsWith(Trim(line), <<"#", "E", "X",
                                                            "T", "-", "X",
                                                            "-", "K", "E",
                                                            "Y", ":">>))

\* the attributes of an #EXT-X-KEY line
KeyAttributes(line) ==
  LET trimmed == Trim(line)
  IN ParseAttributes(SubSeq(trimmed, 12, Len(trimmed)))

HasForeignMethod(line) ==
  AttrOr(KeyAttributes(line), <<"M", "E", "T", "H", "O", "D">>, <<"N", "O",
                                                                  "N", "E">>)
    \notin {<<"N", "O", "N", "E">>, <<"A", "E", "S", "-", "1", "2", "8">>}

HasDrmKeyFormat(line) ==
  \/ Includes(AttrOr(KeyAttributes(line), <<"K", "E", "Y", "F", "O", "R",
                                            "M", "A", "T">>, <<>>), <<"w",
                                            "i", "d", "e", "v", "i", "n",
                                            "e">>)
  \/ Includes(AttrOr(KeyAttributes(line), <<"K", "E", "Y", "F", "O", "R",
                                            "M", "A", "T">>, <<>>), <<"f",
                                            "a", "i", "r", "p", "l", "a",
                                            "y">>)

IsMasterContent(content) ==
  \E k \in DOMAIN content :
    StartsWith(Trim(content[k]), <<"#", "E", "X", "T", "-", "X", "-", "S",
                                   "T", "R", "E", "A", "M", "-", "I", "N",
                                   "F">>)

\* C22: a parsed playlist, master or media, one of whose EXT-X-KEY lines has
\* a METHOD other than NONE and AES-128 has isDRM = true.
C22_ForeignKeyMethodIsDrm ==
  HlsReturned =>
    ((\E k \in DOMAIN KeyLines(call.input) :
        HasForeignMethod(KeyLines(call.input)[k]))
       => ReturnedPlaylist.isDRM)

\* C23: a media playlist whose EXT-X-KEY lines all have METHOD NONE or
\* AES-128 and no KEYFORMAT containing widevine or fairplay parses with
\* isDRM = false and protection 'none', whatever the number and the order
\* of its key and segment lines.
C23_Aes128IsNotDrm ==
  (/\ HlsReturned
   /\ ~IsMasterContent(call.input)
   /\ \A k \in DOMAIN KeyLines(call.input) :
        /\ ~HasForeignMethod(KeyLines(call.input)[k])
        /\ ~HasDrmKeyFormat(KeyLines(call.input)[k]))
    => /\ ReturnedPlaylist.type = "media"
       /\ ~ReturnedPlaylist.isDRM
       /\ call.pc = "classified" => call.output.protection = "none"

\* a media playlist with a segment between an AES-128 key and a NONE key
\* was parsed and classified
C23_Witness ==
  /\ call.fn = "parseHLSManifest"
  /\ call.pc = "classified"
  /\ call.output.playlist.type = "media"
  /\ Len(call.output.playlist.segments) = 1
  /\ call.output.playlist.segments[1].key.method = <<"A", "E", "S", "-",
                                                     "1", "2", "8">>
  /\ call.output.playlist.encryption.method = <<"N", "O", "N", "E">>
  /\ Len(KeyLines(call.input)) = 2

ReturnedSet ==
  IF call.pc = "generated" THEN call.output.adaptationSet ELSE call.output

DashReturned ==
  call.fn = "parseAdaptationSet" /\ call.pc \in {"returned", "generated"}

RECURSIVE TimelinePlan(_, _, _)
TimelinePlan(entries, time, number) ==
  IF entries = <<>> THEN <<>>
  ELSE
    LET s == Head(entries)
        t == IF GetAttribute(s, "t") # <<>>
             THEN DecimalValue(GetAttribute(s, "t")) ELSE time
        d == DecimalValue(GetAttribute(s, "d"))
        r == DecimalValue(GetAttribute(s, "r"))
    IN [k \in 1..(r + 1) |->
          [number |-> number + k - 1, time |-> t + (k - 1) * d]]
         \o TimelinePlan(Tail(entries), t + (r + 1) * d, number + r + 1)

\* the URL a media attribute of MediaTemplates gives for a segment of
\* representation v1 (bandwidth 500)
ExpectedUrl(media, segment) ==
  <<"h", "t", "t", "p", "s", ":", "/", "/", "c", "d", "n", ".", "e", "x",
    "a", "m", "p", "l", "e", "/", "d", "/">> \o
    (CASE media = <<"v", "_", "$", "R", "e", "p", "r", "e", "s", "e", "n",
                    "t", "a", "t", "i", "o", "n", "I", "D", "$", "_", "$",
                    "N", "u", "m", "b", "e", "r", "%", "0", "5", "d", "$",
                    ".", "m", "4", "s">> ->
            <<"v", "_", "v", "1", "_">>
              \o [k \in 1..(5 - Len(DecimalText(segment.number))) |-> "0"]
              \o DecimalText(segment.number) \o <<".", "m", "4", "s">>
       [] media = <<"s", "e", "g", "-", "$", "T", "i", "m", "e", "$", ".",
                    "m", "4", "s">> ->
            <<"s", "e", "g", "-">> \o DecimalText(segment.time) \o <<".",
                                                                     "m",
                                                                     "4",
                                                                     "s">>
       [] media = <<"$", "B", "a", "n", "d", "w", "i", "d", "t", "h", "$",
                    "/", "$", "N", "u", "m", "b", "e", "r", "$", ".", "m",
                    "4", "s">> ->
            <<"5", "0", "0", "/">> \o DecimalText(segment.number) \o <<".",
                                                                       "m",
                                                                       "4",
                                                                       "s">>)

\* the <SegmentTemplate> element of the input, when it has one
InputTemplate == QuerySelector(call.input, "SegmentTemplate")

ExpectedUrls ==
  LET plan == TimelinePlan(
                QuerySelectorAll(InputTemplate[1], "S"), 0,
                IF GetAttribute(InputTemplate[1], "startNumber") = <<>> THEN 1
                ELSE DecimalValue(GetAttribute(InputTemplate[1],
                                               "startNumber")))
  IN [k \in DOMAIN plan |->
        ExpectedUrl(GetAttribute(InputTemplate[1], "media"), plan[k])]

\* C30: for a segment template with a timeline generateSegmentUrls returns
\* sum of (repeat + 1) URLs in timeline order, the k-th with Number =
\* startNumber + k (zero-padded for $Number%0Nd$) and Time = the running t,
\* which is set to an entry's t when it has one and advanced by d after
\* each segment.
C30_TimelineUrls ==
  (/\ call.fn = "parseAdaptationSet"
   /\ call.pc = "generated"
   /\ InputTemplate # <<>>) => call.output.urls = ExpectedUrls

\* the URLs of a timeline of two entries, <S d=10 r=2> and <S t=100 d=5>,
\* numbered from startNumber 7 with five digits, were generated
C30_Witness ==
  /\ call.fn = "parseAdaptationSet"
  /\ call.pc = "generated"
  /\ InputTemplate # <<>>
  /\ Len(call.output.urls) = 4
  /\ call.output.urls[1] = <<"h", "t", "t", "p", "s", ":", "/", "/", "c",
                             "d", "n", ".", "e", "x", "a", "m", "p", "l",
                             "e", "/", "d", "/", "v", "_", "v", "1", "_",
                             "0", "0", "0", "0", "7", ".", "m", "4", "s">>
  /\ call.output.urls[4] = <<"h", "t", "t", "p", "s", ":", "/", "/", "c",
                             "d", "n", ".", "e", "x", "a", "m", "p", "l",
                             "e", "/", "d", "/", "v", "_", "v", "1", "_",
                             "0", "0", "0", "1", "0", ".", "m", "4", "s">>
  /\ GetAttribute(QuerySelectorAll(call.input, "S")[2], "t") = <<"1", "0",
                                                                 "0">>

\* the label the table gives: by the height when it is known, else by the
\* bitrate when it is known
TableLabel(height, bitrate) ==
  IF Truthy(height)
  THEN CASE height.n = 2160 -> <<"4", "K">>
         [] height.n = 1440 -> <<"1", "4", "4", "0", "p">>
         [] height.n = 1080 -> <<"1", "0", "8", "0", "p">>
         [] height.n = 720 -> <<"7", "2", "0", "p">>
         [] height.n = 480 -> <<"4", "8", "0", "p">>
         [] height.n = 360 -> <<"3", "6", "0", "p">>
         [] OTHER -> DecimalText(height.n) \o <<"p">>
  ELSE IF Truthy(bitrate)
  THEN CASE bitrate.n >= 8000000 -> <<"H", "i", "g", "h">>
         [] bitrate.n >= 4000000 -> <<"M", "e", "d", "i", "u", "m">>
         [] OTHER -> <<"L", "o", "w">>
  ELSE <<"U", "n", "k", "n", "o", "w", "n">>

\* C26: the quality label of a known height h is "4K" for 2160, "1440p",
\* "1080p", "720p", "480p", "360p" for these heights and "<h>p" for every
\* other height (900 gives "900p"); with the height unknown it is "High",
\* "Medium" or "Low" by the bitrate thresholds 8,000,000 and 4,000,000,
\* else "Unknown".
C26_QualityLabel ==
  (call.fn = "getQualityLabel" /\ call.pc = "returned") =>
    call.output = TableLabel(call.input.height, call.input.bitrate)

\* the step enters executeDownload for job id: its task gets its locals
TaskStarts(id) == task[id].pc = "none" /\ task'[id].pc # "none"

\* the step ends the task of a job that was running: its finally block ran
SomeTaskEnds == \E j \in JobIds : Running(j) /\ task'[j].pc = "done"

RunningTasks == {j \in JobIds : Running(j)}

\* C27: a job that waits in the queue is started only in a step in which the
\* task of a running job ends and releases its slot; a step that submits or
\* cancels a job starts no task while maxConcurrent tasks are still running.
C27_PendingStartsOnRelease ==
  [][\A id \in Ids :
       TaskStarts(id) =>
         /\ id \in Range(queue) => SomeTaskEnds
         /\ ~SomeTaskEnds => Cardinality(RunningTasks) < maxConcurrent]_vars

\* job 2 waited behind job 1: it was reported pending before executeDownload
\* ran for it, which happened when the task of job 1 ended (its stream type
\* is unsupported, so executeDownload set it downloading and failed it at once)
C27_Witness ==
  /\ maxConcurrent = 1
  /\ 2 \in JobIds
  /\ task[1].pc = "done"
  /\ task[2].pc = "done"
  /\ jobs[2].status = "failed"
  /\ Len(events[2]) = 2
  /\ events[2][1].status = "pending"
  /\ events[2][2].kind = "error"

\* the awaits of a segment download: the GET and the write of the init
\* segment and of a media segment
SegmentFetchPcs == {"init_fetch", "seg_fetch"}
SegmentPcs == SegmentFetchPcs \cup {"init_write", "seg_write"}

\* cancelDownload(id) was called while the HLS or DASH task of id was running
CancelledWhileRunning(id) ==
  /\ id \in JobIds
  /\ jobs[id].stream.type \in {"hls", "dash"}
  /\ Running(id)
  /\ task[id].aborted

\* the segments the step wrote for id: one progress report follows each write
SegmentsWritten(id) ==
  Len(SelectSeq(NewEvents(id), LAMBDA e : e.kind = "progress"))

\* C28: after cancelDownload(id) on a running HLS or DASH job no GET of a
\* segment is started for the job, and at most one segment, the one whose
\* download was in flight at the cancel, is still written to disk: the step
\* that writes it leaves the task outside the segment loop.
C28_NoNewSegmentAfterCancel ==
  [][\A id \in Ids :
       CancelledWhileRunning(id) =>
         /\ task'[id].pc \in SegmentFetchPcs => task'[id] = task[id]
         /\ SegmentsWritten(id) <= 1
         /\ (SegmentsWritten(id) = 1 \/ task[id].pc = "init_write")
              => (task'[id].pc \notin SegmentPcs \/ task'[id] = task[id])]_vars

\* the job was cancelled while the write of its second segment was in flight
C28_Witness ==
  \E id \in JobIds :
    /\ CancelledWhileRunning(id)
    /\ jobs[id].status = "cancelled"
    /\ task[id].pc = "seg_write"
    /\ task[id].i = 1
    /\ task[id].total = 2

\* mergeSegments is over: its promise is settled and no listener of the
\* encoder process is still to run
MergeOver == call.fn = "mergeSegments" /\ call.pc \in {"closed", "threw"}

\* C29: once mergeSegments is over, the concat list file it wrote is removed,
\* whether the encoder exited with code 0, exited with another code, or
\* could not be spawned.
C29_ConcatListRemoved ==
  MergeOver =>
    \A k \in DOMAIN call.output.files :
      call.output.files[k].path # ConcatPath(call.input.outputPath)

\* the <SegmentList> element of the input, when it has one
InputSegmentList == QuerySelector(call.input, "SegmentList")

\* the URLs of the <SegmentURL> entries of the input in document order,
\* each media attribute taken relative to the URL of the MPD
ListedUrls ==
  LET entries == SelectSeq(QuerySelectorAll(InputSegmentList[1], "SegmentURL"),
                           LAMBDA s : GetAttribute(s, "media") # <<>>)
  IN [k \in DOMAIN entries |->
        <<"h", "t", "t", "p", "s", ":", "/", "/", "c", "d", "n", ".", "e",
          "x", "a", "m", "p", "l", "e", "/", "d",
          "/">> \o GetAttribute(entries[k], "media")]

\* C31: for a representation that has both a SegmentList and a segment
\* template, its own or the one of the adaptation set, the generated segment
\* URLs are the SegmentURL entries of the list in document order, not the
\* expansion of the template.
C31_SegmentListOverridesTemplate ==
  (/\ call.fn = "parseAdaptationSet"
   /\ call.pc = "generated"
   /\ InputSegmentList # <<>>
   /\ InputTemplate # <<>>) => call.output.urls = ListedUrls

\* the initialization URI the input gives the representation: the
\* initialization attribute of its template with $RepresentationID$
\* expanded, else the sourceURL of the <Initialization> of its segment list
InputInitialization ==
  LET ofTemplate == IF InputTemplate = <<>> THEN <<>>
                    ELSE GetAttribute(InputTemplate[1], "initialization")
      inits == IF InputSegmentList = <<>> THEN <<>>
               ELSE QuerySelectorAll(InputSegmentList[1], "Initialization")
      ofList == IF inits = <<>> THEN <<>>
                ELSE GetAttribute(inits[1], "sourceURL")
  IN IF ofTemplate = <<"i", "n", "i", "t", "-", "$", "R", "e", "p", "r",
                       "e", "s", "e", "n", "t", "a", "t", "i", "o", "n",
                       "I", "D", "$", ".", "m", "p", "4">> THEN <<"i", "n",
                       "i", "t", "-", "v", "1", ".", "m", "p", "4">>
     ELSE IF ofTemplate # <<>> THEN ofTemplate
     ELSE ofList

\* a DASH download that got media segments
DashDownloaded ==
  /\ call.fn = "parseAdaptationSet"
  /\ call.pc = "downloaded"
  /\ call.output.download.error = <<>>

\* C32: in a DASH job whose representation has an initialization URI, given
\* by its segment template or by its segment list, that URI is fetched
\* before any media segment and its file is the first entry of the list
\* handed to the merge step.
C32_InitializationFirst ==
  (DashDownloaded /\ InputInitialization # <<>>) =>
    /\ Includes(call.output.download.requests[1], InputInitialization)
    /\ call.output.download.segmentFiles[1] = <<"i", "n", "i", "t", ".",
                                                "m", "p", "4">>
    /\ Len(call.output.download.requests) = Len(call.output.urls) + 1

\* the URLs an LRU cache of capacity ManifestCacheLimit holds after the
\* uses recorded in extension.recent (a use is a hit or the caching of a
\* fetched manifest): the last ManifestCacheLimit of them
MostRecentlyUsed ==
  LET n == Len(extension.recent)
      from == IF n > ManifestCacheLimit THEN n - ManifestCacheLimit + 1 ELSE 1
  IN {extension.recent[k] : k \in from..n}

\* C33: the manifest cache behaves as an LRU cache of capacity 100 keyed by
\* URL: after any sequence of fetches it holds exactly the most recently
\* used URLs, at most 100 of them.
C33_ManifestCacheIsLru ==
  /\ Len(extension.manifestCache) <= ManifestCacheLimit
  /\ {extension.manifestCache[k].url : k \in DOMAIN extension.manifestCache}
       = MostRecentlyUsed

\* C34: provided every started download task eventually ends, every job
\* accepted by startDownload eventually reaches completed, failed or
\* cancelled; no job stays pending in the queue forever.
C34_EveryJobEnds ==
  \A id \in 1..MaxJobs :
    (id \in JobIds)
      ~> (id \in JobIds /\ jobs[id].status \in TerminalStatuses)

\* one slot only: job 2 was accepted behind job 1 and both have ended, job 1
\* cancelled and job 2 completed, with nothing left in the queue
C34_Witness ==
  /\ maxConcurrent = 1
  /\ JobIds = {1, 2}
  /\ 1 \in cancelRequested
  /\ jobs[1].status = "cancelled" /\ task[1].pc = "done"
  /\ jobs[2].status = "completed" /\ task[2].pc = "done"
  /\ queue = <<>>
  /\ activeDownloads = 0

\* C35: two jobs that are running at the same time never write to the same
\* final output path, also when their streams have the same page title.
C35_DistinctOutputPaths ==
  \A a \in JobIds, b \in JobIds :
    a # b => WritesTo(a) \cap WritesTo(b) = {}

\* the status job id has in the job table when a message of the step is
\* sent: onProgress is called before its handler changes the status, and
\* the message that answers a DOWNLOAD_REQUEST is sent after startDownload
\* has returned
StatusWhenSent(id) ==
  IF id \in DOMAIN jobs THEN jobs[id].status ELSE jobs'[id].status

\* C36: the status field of every DOWNLOAD_PROGRESS message sent to the
\* extension equals the status the job has in the job table at the moment
\* the message is sent.
C36_ProgressStatusIsJobStatus ==
  [][\A id \in DOMAIN jobs' :
       \A k \in DOMAIN NewEvents(id) :
         NewEvents(id)[k].kind = "progress"
           => NewEvents(id)[k].status = StatusWhenSent(id)]_vars

\* C37: in the NativeMessaging client, under any interleaving of connect(),
\* the port's disconnect callback and disconnect(), connected = true implies
\* that a port is held and that this port has not been disconnected.
C37_ConnectedHoldsOpenPort ==
  extension.connected
    => /\ extension.port # NoPort
       /\ extension.ports[extension.port].open

\* the host goes away right after every connection attempt: no PING was
\* ever answered, every port that is closed was closed by the host while
\* its connect() still waited, a port still open is one whose connect()
\* still waits, and disconnect() was not called
HostKeepsDisconnecting ==
  /\ extension.disconnectCalls = 0
  /\ \A p \in DOMAIN extension.ports :
       /\ ~extension.ports[p].answered
       /\ extension.ports[p].open => WaitsFor(extension, p) # {}
       /\ ~extension.ports[p].open => extension.ports[p].early

\* C38: when the native host keeps disconnecting right after each connection
\* attempt, the client schedules at most maxReconnectAttempts (3) automatic
\* reconnects and then stops retrying.
C38_ReconnectsBounded ==
  HostKeepsDisconnecting => extension.scheduled <= MaxReconnectAttempts

OpenPorts == {p \in DOMAIN extension.ports : extension.ports[p].open}

\* C39: at most one native-messaging port is open at any time: overlapping
\* connect() calls never create a second port while an earlier one is still
\* open or still being set up.
C39_OnePortOpen == Cardinality(OpenPorts) <= 1

\* C40: for every tab, the list of detected streams stored for it never
\* contains two streams with the same URL, also when several requests for
\* the same URL are observed while an earlier one is still being enriched.
C40_NoDuplicateStreams ==
  \A tabId \in DOMAIN extension.tabStreams :
    LET streams == extension.arrays[extension.tabStreams[tabId]]
    IN \A i \in DOMAIN streams, j \in DOMAIN streams :
         streams[i].url = streams[j].url => i = j

====
